---------------------------- MODULE Spec2Model ----------------------------
(***************************************************************************)
(* SmartClass content delivery: the ContentCache (lib/content-cache.ts)    *)
(* and the tiered content orchestrator (data/ai-content.ts) with its two   *)
(* gateways (lib/api-client.ts, lib/chromadb-client.ts).                   *)
(*                                                                         *)
(* Time is counted in units of five minutes.  Strings are sequences of     *)
(* one-character strings so that String.includes and Array.join can be     *)
(* computed as the code computes them.                                     *)
(*                                                                         *)
(* Spec and SpecFill drive the cache directly, across page reloads.        *)
(* SpecOrch drives it through the orchestrator within one page session,    *)
(* one request at a time; each request is cut at its awaits, and the       *)
(* answers of the generation service and of the retrieval gateway are      *)
(* chosen freely, a 200 response without its payload field included.       *)
(***************************************************************************)
EXTENDS Integers, Sequences, FiniteSets, TLC

VARIABLES
  cache,      \* ContentCache.cache : Map<string, CacheEntry>, in insertion order
  stats,      \* ContentCache.stats : {hits, misses}
  storage,    \* localStorage records under the smartclass_cache_ prefix
  now,        \* Date.now()
  last,       \* the last cache operation or request step and what it returned
  reqs,       \* orchestrator requests in flight, one per slot
  probes,     \* the instants at which a health probe was sent, in order
  page        \* the React state of the lesson page (ContentPage)

vars == <<cache, stats, storage, now, last, reqs, probes, page>>

---------------------------------------------------------------------------
(* Bounds of the model *)

MaxTime == 2        \* the clock stops after this many units
MaxGets == 2        \* gets counted by stats between two resets
MAX_ENTRIES == 2    \* ContentCache.MAX_ENTRIES, scaled down from 100

(* Program constants, in units of five minutes *)

DEFAULT_TTL == 6    \* 30 * 60 * 1000
FALLBACK_TTL == 1   \* 5 * 60 * 1000
AI_TTL == 6         \* 30 * 60 * 1000

---------------------------------------------------------------------------
(* JavaScript values *)

Undefined == [t |-> "undefined", v |-> <<>>]
Null == [t |-> "null", v |-> <<>>]
Arr(s) == [t |-> "array", v |-> s]

\* the truthiness test of `if (cached)`
Truthy(x) == x.t \notin {"undefined", "null"}

\* JSON.parse(JSON.stringify(x)) on a payload: a property whose value is
\* undefined is dropped from every element (only cards carry one, image)
JSONCard(c) ==
  IF "image" \in DOMAIN c
  THEN [c EXCEPT !.image = IF @ = "undefined" THEN "absent" ELSE @]
  ELSE c

JSONValue(x) ==
  IF x.t = "array" THEN Arr([i \in 1..Len(x.v) |-> JSONCard(x.v[i])]) ELSE x

\* JSON round trip of a CacheEntry; an entry whose data is undefined loses
\* the data property, which reads back as undefined
JSONEntry(e) == [e EXCEPT !.data = JSONValue(@)]

---------------------------------------------------------------------------
(* Strings *)

Digit(d) == <<"0", "1", "2", "3", "4", "5", "6", "7", "8", "9">>[d + 1]

RECURSIVE toString(_)
toString(n) ==
  IF n < 10 THEN <<Digit(n)>> ELSE toString(n \div 10) \o <<Digit(n % 10)>>

RECURSIVE join(_, _)
join(parts, sep) ==
  IF Len(parts) = 0 THEN <<>>
  ELSE IF Len(parts) = 1 THEN parts[1]
  ELSE parts[1] \o sep \o join(Tail(parts), sep)

includes(s, sub) ==
  \E i \in 0..(Len(s) - Len(sub)) : SubSeq(s, i + 1, i + Len(sub)) = sub

\* String.split on a one-character separator
RECURSIVE split(_, _)
split(s, sep) ==
  IF \A i \in 1..Len(s) : s[i] # sep THEN <<s>>
  ELSE LET i == CHOOSE k \in 1..Len(s) :
                  s[k] = sep /\ \A j \in 1..(k - 1) : s[j] # sep
       IN <<SubSeq(s, 1, i - 1)>> \o split(SubSeq(s, i + 1, Len(s)), sep)

LowerLetters == <<"a", "b", "c", "d", "e", "f", "g", "h", "i", "j", "k", "l", "m", "n", "o", "p", "q", "r", "s", "t", "u", "v", "w", "x", "y", "z">>
UpperLetters == <<"A", "B", "C", "D", "E", "F", "G", "H", "I", "J", "K", "L", "M", "N", "O", "P", "Q", "R", "S", "T", "U", "V", "W", "X", "Y", "Z">>

IsWordChar(c) ==
  \/ \E i \in 1..26 : c = LowerLetters[i] \/ c = UpperLetters[i]
  \/ \E d \in 0..9 : c = Digit(d)
  \/ c = "_"

\* toUpperCase and toLowerCase of one character
charToUpperCase(c) ==
  IF \E i \in 1..26 : LowerLetters[i] = c
  THEN UpperLetters[CHOOSE i \in 1..26 : LowerLetters[i] = c] ELSE c

charToLowerCase(c) ==
  IF \E i \in 1..26 : UpperLetters[i] = c
  THEN LowerLetters[CHOOSE i \in 1..26 : UpperLetters[i] = c] ELSE c

toLowerCase(s) == [i \in 1..Len(s) |-> charToLowerCase(s[i])]

\* s.replace(a, b) with one-character strings: the first occurrence only
replace(s, a, b) ==
  IF \A i \in 1..Len(s) : s[i] # a THEN s
  ELSE LET i == CHOOSE k \in 1..Len(s) : s[k] = a /\ \A j \in 1..(k - 1) : s[j] # a
       IN [s EXCEPT ![i] = b]

\* s.replace(/\b\w/g, l => l.toUpperCase())
capitalizeWords(s) ==
  [i \in 1..Len(s) |->
     IF IsWordChar(s[i]) /\ (i = 1 \/ ~IsWordChar(s[i - 1]))
     THEN charToUpperCase(s[i]) ELSE s[i]]

S_content == <<"c", "o", "n", "t", "e", "n", "t">>
S_quiz == <<"q", "u", "i", "z">>
S_mid == <<"m", "i", "d">>
S_final == <<"f", "i", "n", "a", "l">>
S_topics == <<"t", "o", "p", "i", "c", "s">>
S_all == <<"a", "l", "l">>

---------------------------------------------------------------------------
(* ContentCache *)

\* CacheKey; an absent quizType is the empty string and an absent numCards
\* is 0, both falsy as undefined is
CacheKey(type, topicId, subtopicId, subjectId, gradeId, quizType, numCards) ==
  [type |-> type, topicId |-> topicId, subtopicId |-> subtopicId,
   subjectId |-> subjectId, gradeId |-> gradeId,
   quizType |-> quizType, numCards |-> numCards]

generateKey(params) ==
  LET keyParts == <<params.type, params.subjectId, params.gradeId,
                    params.topicId, params.subtopicId>>
      withQuiz == IF params.quizType # <<>>
                  THEN Append(keyParts, params.quizType) ELSE keyParts
      withNum == IF params.numCards # 0
                 THEN Append(withQuiz, toString(params.numCards)) ELSE withQuiz
  IN join(withNum, <<":">>)

CacheEntry(key, data, timestamp, expiresAt, accessCount, lastAccessed) ==
  [key |-> key, data |-> data, timestamp |-> timestamp,
   expiresAt |-> expiresAt, accessCount |-> accessCount,
   lastAccessed |-> lastAccessed]

\* mutant: an entry is kept one time unit past expiresAt
isExpired_late(entry, t) == t > entry.expiresAt + 1

\* the expiry test `Date.now() > entry.expiresAt` of get, cleanup and
\* loadFromStorage
isExpired(entry, t) == t > entry.expiresAt

\* Map.has / Map.get / Map.delete / Map.set on the ordered entry sequence
MapHas(m, key) == \E i \in 1..Len(m) : m[i].key = key

MapGet(m, key) == m[CHOOSE i \in 1..Len(m) : m[i].key = key]

MapDelete(m, key) == SelectSeq(m, LAMBDA e : e.key # key)

\* variant: a set adds an entry even when the key is present
MapSet_append(m, key, entry) == Append(m, entry)

MapSet(m, key, entry) ==
  IF MapHas(m, key)
  THEN [i \in 1..Len(m) |-> IF m[i].key = key THEN entry ELSE m[i]]
  ELSE Append(m, entry)

MapKeys(m) == {m[i].key : i \in 1..Len(m)}

\* localStorage whose setItem and removeItem throw (quota exceeded, access
\* denied) holds this record, under a key that generateKey never returns;
\* getItem still answers
Failing == CacheEntry(<<>>, Undefined, 0, 0, 0, 0)

throws(st) == Failing \in st

\* the catch blocks of the three functions leave localStorage as it was
persistToStorage(st, key, entry) ==
  IF throws(st) THEN st
  ELSE {r \in st : r.key # key} \cup {JSONEntry(entry)}

removeFromStorage(st, key) ==
  IF throws(st) THEN st ELSE {r \in st : r.key # key}

clearStorage(st) == IF throws(st) THEN st ELSE {}

\* result: the storage after the call and the entries found (none or one)
loadFromStorage(st, key, t) ==
  LET stored == {r \in st : r.key = key}
  IN IF stored = {} THEN [storage |-> st, found |-> {}]
     ELSE IF \E r \in stored : isExpired(r, t)
          THEN [storage |-> removeFromStorage(st, key), found |-> {}]
          ELSE [storage |-> st, found |-> stored]

\* mutant: the entry inserted first is evicted, whenever it was last read
oldestIndex_first(m) == 1

\* index of the entry evictLeastRecentlyUsed picks: the first entry in
\* iteration order whose lastAccessed is below every earlier one
oldestIndex(m) ==
  CHOOSE i \in 1..Len(m) :
    /\ \A j \in 1..Len(m) : m[i].lastAccessed <= m[j].lastAccessed
    /\ \A j \in 1..(i - 1) : m[j].lastAccessed > m[i].lastAccessed

\* variant: the evicted entry stays in localStorage
evictLeastRecentlyUsed_memoryOnly(c) ==
  IF Len(c.cache) = 0 THEN c
  ELSE LET oldestKey == c.cache[oldestIndex(c.cache)].key
       IN [c EXCEPT !.cache = MapDelete(@, oldestKey)]

evictLeastRecentlyUsed(c) ==
  IF Len(c.cache) = 0 THEN c
  ELSE LET oldestKey == c.cache[oldestIndex(c.cache)].key
       IN [c EXCEPT !.cache = MapDelete(@, oldestKey),
                    !.storage = removeFromStorage(@, oldestKey)]

\* variant: nothing is stored in memory when localStorage refuses the write
set_mirrorFirst(c, params, data, ttl, t) ==
  LET key == generateKey(params)
      c1 == IF Len(c.cache) >= MAX_ENTRIES
            THEN evictLeastRecentlyUsed(c) ELSE c
      entry == CacheEntry(key, data, t, t + ttl, 0, t)
  IN IF throws(c.storage) THEN c
     ELSE [c1 EXCEPT !.cache = MapSet(@, key, entry),
                     !.storage = persistToStorage(@, key, entry)]

\* mutant: an entry that exists is not overwritten
set_keepOld(c, params, data, ttl, t) ==
  LET key == generateKey(params)
      c1 == IF Len(c.cache) >= MAX_ENTRIES
            THEN evictLeastRecentlyUsed(c) ELSE c
      entry == CacheEntry(key, data, t, t + ttl, 0, t)
  IN IF MapHas(c1.cache, key) THEN c1
     ELSE [c1 EXCEPT !.cache = MapSet(@, key, entry),
                     !.storage = persistToStorage(@, key, entry)]

\* c is the store {cache, storage, stats}
set(c, params, data, ttl, t) ==
  LET key == generateKey(params)
      c1 == IF Len(c.cache) >= MAX_ENTRIES
            THEN evictLeastRecentlyUsed(c) ELSE c
      entry == CacheEntry(key, data, t, t + ttl, 0, t)
  IN [c1 EXCEPT !.cache = MapSet(@, key, entry),
                !.storage = persistToStorage(@, key, entry)]

\* result: the store after the hit and the value returned
\* variant: an entry loaded from localStorage is returned without counting
processHit_uncounted(c, key, entry) ==
  LET hit == [entry EXCEPT !.accessCount = @ + 1, !.lastAccessed = c.t]
  IN [store |-> [cache |-> MapSet(c.cache, key, hit),
                 storage |-> c.storage,
                 stats |-> IF entry.accessCount = 0 /\ entry.lastAccessed < c.t
                           THEN c.stats
                           ELSE [c.stats EXCEPT !.hits = @ + 1]],
      ret |-> entry.data]

processHit(c, key, entry) ==
  LET hit == [entry EXCEPT !.accessCount = @ + 1, !.lastAccessed = c.t]
  IN [store |-> [cache |-> MapSet(c.cache, key, hit),
                 storage |-> c.storage,
                 stats |-> [c.stats EXCEPT !.hits = @ + 1]],
      ret |-> entry.data]

get(c, params, t) ==
  LET key == generateKey(params)
  IN IF ~MapHas(c.cache, key)
     THEN LET ld == loadFromStorage(c.storage, key, t)
          IN IF ld.found # {}
             THEN LET storedEntry == CHOOSE r \in ld.found : TRUE
                  IN processHit([cache |-> MapSet(c.cache, key, storedEntry),
                                 storage |-> ld.storage,
                                 stats |-> c.stats, t |-> t],
                                key, storedEntry)
             ELSE [store |-> [cache |-> c.cache, storage |-> ld.storage,
                              stats |-> [c.stats EXCEPT !.misses = @ + 1]],
                   ret |-> Null]
     ELSE LET entry == MapGet(c.cache, key)
          IN IF isExpired(entry, t)
             THEN [store |-> [cache |-> MapDelete(c.cache, key),
                              storage |-> removeFromStorage(c.storage, key),
                              stats |-> [c.stats EXCEPT !.misses = @ + 1]],
                   ret |-> Null]
             ELSE processHit([cache |-> c.cache, storage |-> c.storage,
                              stats |-> c.stats, t |-> t], key, entry)

invalidateTopic(c, topicId, subtopicId) ==
  LET keysToDelete ==
        {k \in MapKeys(c.cache) :
           includes(k, topicId) /\ (subtopicId = <<>> \/ includes(k, subtopicId))}
  IN [c EXCEPT !.cache = SelectSeq(@, LAMBDA e : e.key \notin keysToDelete),
               !.storage = IF throws(@) THEN @
                           ELSE {r \in @ : r.key \notin keysToDelete}]

\* variant: the records in localStorage are kept
clear_memoryOnly(c) ==
  [cache |-> <<>>, storage |-> c.storage,
   stats |-> [hits |-> 0, misses |-> 0]]

clear(c) ==
  [cache |-> <<>>, storage |-> clearStorage(c.storage),
   stats |-> [hits |-> 0, misses |-> 0]]

\* variant: the rate is taken over the misses
getStats_perMiss(c) ==
  LET totalRequests == c.stats.hits + c.stats.misses
  IN [totalEntries |-> Len(c.cache),
      hitRate |-> IF c.stats.misses > 0
                  THEN (2 * c.stats.hits * 10000 + c.stats.misses)
                         \div (2 * c.stats.misses)
                  ELSE 0,
      hits |-> c.stats.hits, misses |-> c.stats.misses]

\* getStats without memoryUsage (the length of the serialized payloads).
\* hitRate is in hundredths of a percent: Math.round(hitRate * 100) / 100 has
\* two decimal places
getStats(c) ==
  LET totalRequests == c.stats.hits + c.stats.misses
  IN [totalEntries |-> Len(c.cache),
      hitRate |-> IF totalRequests > 0
                  THEN (2 * c.stats.hits * 10000 + totalRequests)
                         \div (2 * totalRequests)
                  ELSE 0,
      hits |-> c.stats.hits, misses |-> c.stats.misses]

\* variant: an entry is removed from the instant of its expiresAt
cleanup_atExpiry(c, t) ==
  LET expiredKeys == {c.cache[i].key : i \in {j \in 1..Len(c.cache) :
                                                t >= c.cache[j].expiresAt}}
  IN [c EXCEPT !.cache = SelectSeq(@, LAMBDA e : e.key \notin expiredKeys),
               !.storage = {r \in @ : r.key \notin expiredKeys}]

cleanup(c, t) ==
  LET expiredKeys == {c.cache[i].key : i \in {j \in 1..Len(c.cache) :
                                                isExpired(c.cache[j], t)}}
  IN [c EXCEPT !.cache = SelectSeq(@, LAMBDA e : e.key \notin expiredKeys),
               !.storage = IF throws(@) THEN @
                           ELSE {r \in @ : r.key \notin expiredKeys}]

cacheContent(c, topicId, subtopicId, subjectId, gradeId, content, numCards, t) ==
  set(c, CacheKey(S_content, topicId, subtopicId, subjectId, gradeId, <<>>, numCards),
      content, DEFAULT_TTL, t)

getCachedContent(c, topicId, subtopicId, subjectId, gradeId, numCards, t) ==
  get(c, CacheKey(S_content, topicId, subtopicId, subjectId, gradeId, <<>>, numCards), t)

cacheQuiz(c, topicId, subtopicId, subjectId, gradeId, quizType, quiz, t) ==
  set(c, CacheKey(S_quiz, topicId, subtopicId, subjectId, gradeId, quizType, 0),
      quiz, DEFAULT_TTL, t)

getCachedQuiz(c, topicId, subtopicId, subjectId, gradeId, quizType, t) ==
  get(c, CacheKey(S_quiz, topicId, subtopicId, subjectId, gradeId, quizType, 0), t)

---------------------------------------------------------------------------
(* Content cards and the inputs of the cache operations *)

NoValidation == [present |-> FALSE, isValid |-> FALSE, curriculumAlignment |-> 0]

\* AIContentCard: image is a URL, present with the value undefined, or
\* absent; ragContext is absent or the retrieved context
Card(title, body, card_type, image, validation, ragContext) ==
  [title |-> title, body |-> body, card_type |-> card_type, image |-> image,
   validation |-> validation, ragContext |-> ragContext]

S_m == <<"m">>
S_g == <<"g">>
S_x == <<"x">>
S_da == <<"d", "a">>
S_ge == <<"g", "e">>
S_dat == <<"d", "a", "t">>

\* the CacheKey parameters the cache operations are called with
KeyList ==
  << CacheKey(S_content, S_da, S_x, S_m, S_g, <<>>, 5),
     CacheKey(S_content, S_ge, S_dat, S_m, S_g, <<>>, 5),
     CacheKey(S_quiz, S_ge, S_x, S_m, S_g, S_mid, 0),
     CacheKey(S_quiz, S_da, S_x, S_m, S_g, S_final, 0) >>

\* two keys for the runs that vary payload and TTL, three keys for the
\* runs that fill the store
TwoParams == {KeyList[1], KeyList[3]}

FillParams == {KeyList[1], KeyList[2], KeyList[3]}

TestPayloads ==
  { Arr(<<Card(<<"a">>, "text", "content", "undefined", NoValidation, "absent")>>),
    Arr(<<Card(<<"b">>, "text", "introduction", "url", NoValidation, "absent"),
          Card(<<"c">>, "text", "summary", "undefined", NoValidation, "absent")>>) }

OnePayload ==
  {Arr(<<Card(<<"a">>, "text", "content", "undefined", NoValidation, "absent")>>)}

TestTTLs == {FALLBACK_TTL, DEFAULT_TTL}

---------------------------------------------------------------------------
(* Gateways: lib/api-client.ts and lib/chromadb-client.ts *)

\* outcome of GET /health as checkAiServiceStatus sees it: the request
\* fails, or answers with model_loaded false, or with model_loaded true
HealthOutcomes == {"down", "loading", "ready"}

\* outcome of a generation request: a response with the expected field, a
\* failed request, or a 200 response without the expected field
GenOutcomes == {"ok", "error", "malformed"}

\* outcome of checkChromaDBStatus
ChromaOutcomes == {"ready", "nocollection", "down"}

\* outcome of the retrieval of a validateContent call: the retrieval
\* fails, returns no document, or returns documents, all at a distance
\* below 0.8, with the given average distance in tenths
ValOutcomes ==
  { [kind |-> "error", avgDistance |-> 0],
    [kind |-> "nodocs", avgDistance |-> 0],
    [kind |-> "docs", avgDistance |-> 2],
    [kind |-> "docs", avgDistance |-> 7] }

\* variant: a service whose model is still loading counts as ready
checkAiServiceStatus_loadingReady(h) ==
  IF h = "down" THEN [available |-> FALSE, modelLoaded |-> FALSE]
  ELSE [available |-> TRUE, modelLoaded |-> TRUE]

checkAiServiceStatus(h) ==
  IF h = "down" THEN [available |-> FALSE, modelLoaded |-> FALSE]
  ELSE IF h = "loading" THEN [available |-> TRUE, modelLoaded |-> FALSE]
  ELSE [available |-> TRUE, modelLoaded |-> TRUE]

checkChromaDBStatus(ch) ==
  IF ch = "down" THEN [available |-> FALSE, collectionExists |-> FALSE]
  ELSE IF ch = "nocollection" THEN [available |-> TRUE, collectionExists |-> FALSE]
  ELSE [available |-> TRUE, collectionExists |-> TRUE]

\* the validation of a card; curriculumAlignment in tenths
Validation(isValid, curriculumAlignment) ==
  [present |-> TRUE, isValid |-> isValid,
   curriculumAlignment |-> curriculumAlignment]

\* variant: the alignment is given as a percentage
validateContent_percent(val) ==
  IF val.kind = "docs"
  THEN Validation(10 - val.avgDistance > 3, 10 * (10 - val.avgDistance))
  ELSE Validation(TRUE, 50)

validateContent(val) ==
  IF val.kind = "docs"
  THEN LET curriculumAlignment ==
             IF 10 - val.avgDistance > 0 THEN 10 - val.avgDistance ELSE 0
       IN Validation(curriculumAlignment > 3, curriculumAlignment)
  ELSE Validation(TRUE, 5)

\* the cards, questions and topics of a well-formed response
ResponseContent ==
  <<[title |-> <<"Lesson">>, body |-> "text with a diagram", card_type |-> "content"]>>

\* QuizQuestion, without its explanation; absent options are empty
Question(question, question_type, options, correct_answer) ==
  [question |-> question, question_type |-> question_type,
   options |-> options, correct_answer |-> correct_answer]

ResponseQuestions ==
  <<Question(<<"Generated question">>, "multiple_choice", <<"A", "B">>, "A")>>

\* TopicDescription, without its title and description
TopicDescription(topic_id, level) == [topic_id |-> topic_id, level |-> level]

\* a fallback table row: the topics in order, at levels 1, 2, ...
TopicRow(ids) == [i \in 1..Len(ids) |-> TopicDescription(ids[i], i)]

ResponseTopics == <<TopicDescription("numbers", 1), TopicDescription("algebra", 2)>>

generateContentForSubtopic(g, subtopicId) ==
  IF g = "ok" THEN Arr(ResponseContent)
  ELSE IF g = "malformed" THEN Undefined
  ELSE Arr(<<[title |-> capitalizeWords(replace(subtopicId, "-", " "))
                           \o <<" Overview">>,
              body |-> "text", card_type |-> "content"]>>)

generateQuizForTopic(g, subtopicId) ==
  IF g = "ok" THEN Arr(ResponseQuestions)
  ELSE IF g = "malformed" THEN Undefined
  ELSE Arr(<<Question(<<"What did you learn about ">>
                        \o replace(subtopicId, "-", " ") \o <<"?">>,
                      "multiple_choice",
                      <<"Very helpful concepts", "Some new ideas",
                        "Basic information", "Advanced topics">>,
                      "Very helpful concepts")>>)

S_mathematics == <<"m", "a", "t", "h", "e", "m", "a", "t", "i", "c", "s">>
S_english == <<"e", "n", "g", "l", "i", "s", "h">>
S_science == <<"s", "c", "i", "e", "n", "c", "e">>
S_social_studies == <<"s", "o", "c", "i", "a", "l", "-", "s", "t", "u", "d", "i", "e", "s">>
S_physical_education == <<"p", "h", "y", "s", "i", "c", "a", "l", "-", "e", "d", "u", "c", "a", "t", "i", "o", "n">>

generateTopicsForSubject(g, subjectId) ==
  LET key == toLowerCase(subjectId)
  IN IF g = "ok" THEN Arr(ResponseTopics)
     ELSE IF g = "malformed" THEN Undefined
     ELSE IF key = S_mathematics
          THEN Arr(TopicRow(<<"numbers", "fractions", "geometry", "measurement",
                              "data", "algebra", "money">>))
     ELSE IF key = S_english
          THEN Arr(TopicRow(<<"phonics", "reading", "writing", "speaking",
                              "grammar", "vocabulary", "literature">>))
     ELSE IF key = S_science
          THEN Arr(TopicRow(<<"living-things", "human-body", "materials", "forces",
                              "earth", "energy", "space">>))
     ELSE IF key = S_social_studies
          THEN Arr(TopicRow(<<"community", "history", "geography", "culture",
                              "government", "economics">>))
     ELSE IF key = S_physical_education
          THEN Arr(TopicRow(<<"movement", "games", "fitness", "dance", "safety",
                              "athletics", "swimming">>))
     ELSE Arr(TopicRow(<<"general">>))

---------------------------------------------------------------------------
(* Orchestrator: data/ai-content.ts *)

slice(s, n) == SubSeq(s, 1, IF n < Len(s) THEN n ELSE Len(s))

getFallbackTopics(subjectId, gradeId, numTopics) ==
  LET key == toLowerCase(subjectId)
      topics ==
        IF key = S_mathematics
        THEN TopicRow(<<"numbers", "geometry", "measurement", "fractions", "data">>)
        ELSE IF key = S_english
        THEN TopicRow(<<"reading", "writing", "speaking", "grammar", "literature">>)
        ELSE IF key = S_science
        THEN TopicRow(<<"living-things", "materials", "forces", "earth", "energy">>)
        ELSE TopicRow(<<"general">>)
  IN Arr(slice(topics, numTopics))

\* id.split('-').map(capitalise the first character).join(' ')
formatTitle(id) ==
  LET words == split(id, "-")
  IN join([i \in 1..Len(words) |->
             IF Len(words[i]) = 0 THEN words[i]
             ELSE <<charToUpperCase(words[i][1])>> \o Tail(words[i])],
          <<" ">>)

\* the cards carry no image, validation or ragContext property
getFallbackContent(subtopicId, topicId, subjectId) ==
  Arr(<<Card(<<"Introduction to ">> \o formatTitle(subtopicId), "text",
             "introduction", "absent", NoValidation, "absent"),
        Card(<<"Key Concepts in ">> \o formatTitle(subtopicId), "text",
             "concepts", "absent", NoValidation, "absent"),
        Card(<<"Summary and Next Steps">>, "text",
             "summary", "absent", NoValidation, "absent")>>)

getFallbackQuiz(topicId, subtopicId, subjectId, quizType) ==
  LET baseQuestions ==
        <<Question(<<"What is the main focus of this lesson on ">>
                     \o formatTitle(subtopicId) \o <<"?">>,
                   "multiple_choice",
                   <<"Understanding basic concepts", "Memorizing facts only",
                     "Skipping practice exercises", "Avoiding difficult topics">>,
                   "Understanding basic concepts"),
          Question(<<"Why is it important to learn about ">>
                     \o formatTitle(subtopicId) \o <<"?">>,
                   "multiple_choice",
                   <<"It connects to other subjects and real life",
                     "It's only useful for tests",
                     "It has no practical applications",
                     "It's required but not important">>,
                   "It connects to other subjects and real life")>>
      examQuestions ==
        <<Question(<<"Complete this statement: ">> \o formatTitle(subtopicId)
                     \o <<" is important because it ____">>,
                   "fill_blank", <<>>,
                   "helps us understand key concepts and apply them"),
          Question(<<"True or False: Regular practice is essential for mastering ">>
                     \o formatTitle(subtopicId) \o <<".">>,
                   "true_false", <<>>, "True")>>
  IN IF quizType \in {"main", "mid"} THEN Arr(slice(baseQuestions, 2))
     ELSE IF quizType = "exam" THEN Arr(baseQuestions \o examQuestions)
     ELSE Arr(baseQuestions)

\* whether title and body mention a picture; the titles of the model
\* mention none
shouldHaveImage(title, body) == body = "text with a diagram"

\* aiContent.map(card => ({...card, image: ...})) of the plain tier
withImage(aiContent) ==
  Arr([i \in 1..Len(aiContent.v) |->
         Card(aiContent.v[i].title, aiContent.v[i].body, aiContent.v[i].card_type,
              IF shouldHaveImage(aiContent.v[i].title, aiContent.v[i].body)
              THEN "url" ELSE "undefined",
              NoValidation, "absent")])

\* result: the bundle, or a thrown error when aiContent is not an array
\* (aiContent.map is not a function); g1 and g2 are the outcomes of the
\* generation request of the try block and of the catch block, vals[i] the
\* outcome of the validation of card i
generateRAGEnhancedContentCards(subtopicId, g1, g2, vals) ==
  LET aiContent == generateContentForSubtopic(g1, subtopicId)
      again == generateContentForSubtopic(g2, subtopicId)
  IN IF aiContent.t = "array"
     THEN [thrown |-> FALSE,
           value |-> Arr([i \in 1..Len(aiContent.v) |->
                      Card(aiContent.v[i].title, aiContent.v[i].body,
                           aiContent.v[i].card_type,
                           IF shouldHaveImage(aiContent.v[i].title, aiContent.v[i].body)
                           THEN "url" ELSE "undefined",
                           validateContent(vals[i]), "context")])]
     ELSE IF again.t = "array"
          THEN [thrown |-> FALSE, value |-> withImage(again)]
          ELSE [thrown |-> TRUE, value |-> Undefined]

\* apiQuizType of getAIQuizForTopic
apiQuizType(quizType) ==
  IF quizType = "main" THEN S_mid ELSE IF quizType = "exam" THEN S_final ELSE S_mid

\* a request: the function called (kind), its arguments, the await it is
\* suspended at (pc) and, once done, what it resolved with and at which tier
Request(kind, pc, topicId, subtopicId, subjectId, gradeId, quizType, num, ret, tier) ==
  [kind |-> kind, pc |-> pc, topicId |-> topicId, subtopicId |-> subtopicId,
   subjectId |-> subjectId, gradeId |-> gradeId, quizType |-> quizType,
   num |-> num, ret |-> ret, tier |-> tier]

IdleRequest == Request("none", "idle", <<>>, <<>>, <<>>, <<>>, "", 0, Undefined, "")

\* the cacheParams of getAITopicsForSubject
topicsCacheParams(subjectId, gradeId, numTopics) ==
  CacheKey(S_content, S_topics, S_all, subjectId, gradeId, <<>>, numTopics)

\* the cache key a request reads and writes
RequestParams(q) ==
  IF q.kind = "topics" THEN topicsCacheParams(q.subjectId, q.gradeId, q.num)
  ELSE IF q.kind = "quiz"
       THEN CacheKey(S_quiz, q.topicId, q.subtopicId, q.subjectId, q.gradeId,
                     apiQuizType(q.quizType), 0)
       ELSE CacheKey(S_content, q.topicId, q.subtopicId, q.subjectId, q.gradeId,
                     <<>>, q.num)

\* Each function is cut at its awaits.  A part returns the store after it,
\* whether the function has returned, and the value and tier it returned.
Part(store, done, ret, tier) ==
  [store |-> store, done |-> done, ret |-> ret, tier |-> tier]

\* the cache lookup: lines 528-546, 583-597, 664-682
cacheLookup(c, q, t) ==
  LET r == get(c, RequestParams(q), t)
  IN IF Truthy(r.ret) THEN Part(r.store, TRUE, r.ret, "cache")
     ELSE Part(r.store, FALSE, Undefined, "")

\* after `await checkAiServiceStatus()`
getAITopicsForSubject_status(c, q, h, t) ==
  LET serviceStatus == checkAiServiceStatus(h)
  IN IF ~serviceStatus.available \/ ~serviceStatus.modelLoaded
     THEN LET fallbackTopics == getFallbackTopics(q.subjectId, q.gradeId, q.num)
          IN Part(set(c, topicsCacheParams(q.subjectId, q.gradeId, q.num),
                      fallbackTopics, FALLBACK_TTL, t),
                  TRUE, fallbackTopics, "static")
     ELSE Part(c, FALSE, Undefined, "")

getAIContentForSubtopic_status(c, q, h, t) ==
  LET serviceStatus == checkAiServiceStatus(h)
  IN IF ~serviceStatus.available \/ ~serviceStatus.modelLoaded
     THEN LET fallbackContent == getFallbackContent(q.subtopicId, q.topicId, q.subjectId)
          IN Part(cacheContent(c, q.topicId, q.subtopicId, q.subjectId, q.gradeId,
                               fallbackContent, q.num, t),
                  TRUE, fallbackContent, "static")
     ELSE Part(c, FALSE, Undefined, "")

getAIQuizForTopic_status(c, q, h, t) ==
  LET serviceStatus == checkAiServiceStatus(h)
  IN IF ~serviceStatus.available \/ ~serviceStatus.modelLoaded
     THEN LET fallbackQuiz == getFallbackQuiz(q.topicId, q.subtopicId, q.subjectId,
                                              q.quizType)
          IN Part(cacheQuiz(c, q.topicId, q.subtopicId, q.subjectId, q.gradeId,
                            apiQuizType(q.quizType), fallbackQuiz, t),
                  TRUE, fallbackQuiz, "static")
     ELSE Part(c, FALSE, Undefined, "")

\* after the generation: lines 556-562
getAITopicsForSubject_generate(c, q, g, t) ==
  LET aiTopics == generateTopicsForSubject(g, q.subjectId)
  IN Part(set(c, topicsCacheParams(q.subjectId, q.gradeId, q.num), aiTopics, AI_TTL, t),
          TRUE, aiTopics, "generated")

\* variant: the catch block returns the fallback without caching it
getAIContentForSubtopic_catch_uncached(c, q, t) ==
  Part(c, TRUE, getFallbackContent(q.subtopicId, q.topicId, q.subjectId), "static")

\* the catch block: lines 644-650
getAIContentForSubtopic_catch(c, q, t) ==
  LET fallbackContent == getFallbackContent(q.subtopicId, q.topicId, q.subjectId)
  IN Part(cacheContent(c, q.topicId, q.subtopicId, q.subjectId, q.gradeId,
                       fallbackContent, q.num, t),
          TRUE, fallbackContent, "static")

\* after the status of the retrieval gateway and the generation: lines 607-650
getAIContentForSubtopic_generate(c, q, ch, g1, g2, vals, t) ==
  LET chromaStatus == checkChromaDBStatus(ch)
      rag == generateRAGEnhancedContentCards(q.subtopicId, g1, g2, vals)
      aiContent == generateContentForSubtopic(g1, q.subtopicId)
  IN IF chromaStatus.available /\ chromaStatus.collectionExists
     THEN IF rag.thrown THEN getAIContentForSubtopic_catch(c, q, t)
          ELSE Part(cacheContent(c, q.topicId, q.subtopicId, q.subjectId, q.gradeId,
                                 rag.value, q.num, t),
                    TRUE, rag.value, "generated")
     ELSE IF aiContent.t # "array" THEN getAIContentForSubtopic_catch(c, q, t)
          ELSE Part(cacheContent(c, q.topicId, q.subtopicId, q.subjectId, q.gradeId,
                                 withImage(aiContent), q.num, t),
                    TRUE, withImage(aiContent), "generated")

\* after the generation: lines 692-704
getAIQuizForTopic_generate(c, q, g, t) ==
  LET aiQuiz == generateQuizForTopic(g, q.subtopicId)
  IN Part(cacheQuiz(c, q.topicId, q.subtopicId, q.subjectId, q.gradeId,
                    apiQuizType(q.quizType), aiQuiz, t),
          TRUE, aiQuiz, "generated")

---------------------------------------------------------------------------
(* Lesson page: app/content/[gradeId]/[subjectId]/[topicId]/[subtopicId] *)

\* no entry: the empty Record<number, string> or Record<number, boolean>
NoEntries == [i \in {} |-> ""]

\* the state of the component at its first render (the useState calls)
InitialPage ==
  [contentState |-> "intro", currentCardIndex |-> 0,
   quizAnswers |-> NoEntries, quizResults |-> NoEntries,
   isLoading |-> TRUE,
   achievementData |-> [title |-> <<>>, description |-> <<>>, xp |-> 0],
   content |-> <<>>, mainQuiz |-> <<>>, examQuiz |-> <<>>]

\* the one-card sequences of the intro and thank-you states
introContent == <<[title |-> <<"Introduction to Topic">>, body |-> "text"]>>

thankYouContent == <<[title |-> <<"Thank You">>, body |-> "text"]>>

convertQuizForComponent(quiz) ==
  [i \in 1..Len(quiz) |->
     [question |-> quiz[i].question, options |-> quiz[i].options,
      correctAnswer |-> quiz[i].correct_answer]]

convertContentForComponent(content) ==
  [i \in 1..Len(content) |->
     [title |-> content[i].title, body |-> content[i].body,
      image |-> content[i].image]]

currentContent(pg) ==
  CASE pg.contentState = "intro" -> introContent
    [] pg.contentState = "content" -> convertContentForComponent(pg.content)
    [] pg.contentState = "thank-you" -> thankYouContent
    [] pg.contentState \in {"main-quiz", "main-quiz-review"} ->
         convertQuizForComponent(pg.mainQuiz)
    [] pg.contentState \in {"exam-practice", "exam-review"} ->
         convertQuizForComponent(pg.examQuiz)
    [] OTHER -> <<>>

\* variant: a question counts as correct as soon as it is answered
evaluateQuiz_answered(pg, quiz) ==
  [pg EXCEPT !.quizResults =
     [index \in 0..(Len(quiz) - 1) |-> index \in DOMAIN pg.quizAnswers]]

\* results[index] = quizAnswers[index] === question.correct_answer; an
\* index without an answer reads as undefined
evaluateQuiz(pg, quiz) ==
  [pg EXCEPT !.quizResults =
     [index \in 0..(Len(quiz) - 1) |->
        /\ index \in DOMAIN pg.quizAnswers
        /\ pg.quizAnswers[index] = quiz[index + 1].correct_answer]]

\* variant: the thank-you state is followed by the review of the main quiz
transition_skipsMainQuiz(pg) ==
  CASE pg.contentState = "intro" ->
         [pg EXCEPT !.contentState = "content", !.currentCardIndex = 0]
    [] pg.contentState = "content" ->
         [pg EXCEPT !.contentState = "thank-you", !.currentCardIndex = 0]
    [] pg.contentState = "thank-you" ->
         [pg EXCEPT !.contentState = "main-quiz-review", !.currentCardIndex = 0,
                    !.quizAnswers = NoEntries]
    [] pg.contentState = "main-quiz" ->
         [evaluateQuiz(pg, pg.mainQuiz)
            EXCEPT !.contentState = "main-quiz-review", !.currentCardIndex = 0]
    [] pg.contentState = "main-quiz-review" ->
         [pg EXCEPT !.contentState = "exam-practice", !.currentCardIndex = 0,
                    !.quizAnswers = NoEntries]
    [] pg.contentState = "exam-practice" ->
         [evaluateQuiz(pg, pg.examQuiz)
            EXCEPT !.contentState = "exam-review", !.currentCardIndex = 0]
    [] pg.contentState = "exam-review" ->
         [pg EXCEPT !.contentState = "completion"]
    [] OTHER -> pg

\* variant: the answers of the main quiz are kept on entry to the exam
transition_keepsAnswers(pg) ==
  CASE pg.contentState = "intro" ->
         [pg EXCEPT !.contentState = "content", !.currentCardIndex = 0]
    [] pg.contentState = "content" ->
         [pg EXCEPT !.contentState = "thank-you", !.currentCardIndex = 0]
    [] pg.contentState = "thank-you" ->
         [pg EXCEPT !.contentState = "main-quiz", !.currentCardIndex = 0,
                    !.quizAnswers = NoEntries]
    [] pg.contentState = "main-quiz" ->
         [evaluateQuiz(pg, pg.mainQuiz)
            EXCEPT !.contentState = "main-quiz-review", !.currentCardIndex = 0]
    [] pg.contentState = "main-quiz-review" ->
         [pg EXCEPT !.contentState = "exam-practice", !.currentCardIndex = 0]
    [] pg.contentState = "exam-practice" ->
         [evaluateQuiz(pg, pg.examQuiz)
            EXCEPT !.contentState = "exam-review", !.currentCardIndex = 0]
    [] pg.contentState = "exam-review" ->
         [pg EXCEPT !.contentState = "completion"]
    [] OTHER -> pg

\* the switch of handleNextCard: the transition to the next state
transition(pg) ==
  CASE pg.contentState = "intro" ->
         [pg EXCEPT !.contentState = "content", !.currentCardIndex = 0]
    [] pg.contentState = "content" ->
         [pg EXCEPT !.contentState = "thank-you", !.currentCardIndex = 0]
    [] pg.contentState = "thank-you" ->
         [pg EXCEPT !.contentState = "main-quiz", !.currentCardIndex = 0,
                    !.quizAnswers = NoEntries]
    [] pg.contentState = "main-quiz" ->
         [evaluateQuiz(pg, pg.mainQuiz)
            EXCEPT !.contentState = "main-quiz-review", !.currentCardIndex = 0]
    [] pg.contentState = "main-quiz-review" ->
         [pg EXCEPT !.contentState = "exam-practice", !.currentCardIndex = 0,
                    !.quizAnswers = NoEntries]
    [] pg.contentState = "exam-practice" ->
         [evaluateQuiz(pg, pg.examQuiz)
            EXCEPT !.contentState = "exam-review", !.currentCardIndex = 0]
    [] pg.contentState = "exam-review" ->
         [pg EXCEPT !.contentState = "completion"]
    [] OTHER -> pg

\* variant: the last card of a sequence is shown twice
handleNextCard_offByOne(pg) ==
  IF pg.currentCardIndex < Len(currentContent(pg))
  THEN [pg EXCEPT !.currentCardIndex = pg.currentCardIndex + 1]
  ELSE transition(pg)

handleNextCard(pg) ==
  IF pg.currentCardIndex < Len(currentContent(pg)) - 1
  THEN [pg EXCEPT !.currentCardIndex = pg.currentCardIndex + 1]
  ELSE transition(pg)

\* variant: the first selection for a question is kept
handleAnswerSelect_keepFirst(pg, questionIndex, answer) ==
  [pg EXCEPT !.quizAnswers =
     [i \in DOMAIN pg.quizAnswers \cup {questionIndex} |->
        IF i \in DOMAIN pg.quizAnswers THEN pg.quizAnswers[i] ELSE answer]]

\* setQuizAnswers({...quizAnswers, [questionIndex]: answer})
handleAnswerSelect(pg, questionIndex, answer) ==
  [pg EXCEPT !.quizAnswers =
     [i \in DOMAIN pg.quizAnswers \cup {questionIndex} |->
        IF i = questionIndex THEN answer ELSE pg.quizAnswers[i]]]

\* variant: the fraction is cut off
Math_round_down(num, den) == num \div den

\* Math.round of the non-negative quotient num / den: the nearest integer,
\* a half going up
Math_round(num, den) == (2 * num + den) \div (2 * den)

\* the effect on contentState: the toast of the finished lesson, and the
\* score and the reward of the main quiz on entry to its review (the quiz is
\* not empty there: an empty quiz shows no card to advance from)
completionEffect(pg) ==
  IF pg.contentState = "thank-you"
  THEN [pg EXCEPT !.achievementData =
          [title |-> <<"Lesson Completed!">>,
           description |-> <<"You've completed ", "this lesson">>,
           xp |-> 20]]
  ELSE IF pg.contentState = "main-quiz-review"
  THEN LET correctAnswers ==
             Cardinality({i \in DOMAIN pg.quizResults : pg.quizResults[i]})
           totalQuestions == Len(pg.mainQuiz)
           score == Math_round(correctAnswers * 100, totalQuestions)
       IN  [pg EXCEPT !.achievementData =
              [title |-> <<"Quiz Completed!">>,
               description |->
                 <<"You scored ", toString(score), "% on this quiz">>,
               xp |-> Math_round(30 * score, 100)]]
  ELSE pg

\* the card at the cursor exists (currentContent[currentCardIndex])
cardShown(pg) ==
  /\ ~pg.isLoading
  /\ pg.currentCardIndex < Len(currentContent(pg))

\* a ContentCard or a QuizCard with onNext is rendered
canAdvance(pg) == cardShown(pg) /\ pg.contentState # "completion"

\* variant: the QuizCard of a review state also takes selections
canSelect_inReview(pg) ==
  /\ cardShown(pg)
  /\ pg.contentState \in {"main-quiz", "exam-practice", "main-quiz-review", "exam-review"}

\* a QuizCard with onAnswerSelect is rendered
canSelect(pg) ==
  /\ cardShown(pg)
  /\ pg.contentState \in {"main-quiz", "exam-practice"}

---------------------------------------------------------------------------
(* State *)

Slots == {1, 2}

Store == [cache |-> cache, storage |-> storage, stats |-> stats]

\* what the last step did: the operation, its arguments, what it returned,
\* for set and get the entry count and the presence of the key before it,
\* for a step of a request its slot, the upstream outcome it received
\* (outcome: the health or the first generation; chroma: the status of the
\* retrieval gateway; vals: the validations) and the tier it completed at
\* payloads and absents count the direct get calls that returned a payload
\* and that returned null since the last clear (or since the construction);
\* report is what getStats returned
NoReport == [totalEntries |-> 0, hitRate |-> 0, hits |-> 0, misses |-> 0]

\* an invalidation (clear, or invalidateTopic with these arguments) runs
\* while a request whose key it covers is suspended at an await
Overtaken(op, key, sub) ==
  \E s \in Slots :
    /\ reqs[s].pc \in {"health", "generate"}
    /\ \/ op = "clear"
       \/ LET k == generateKey(RequestParams(reqs[s]))
          IN includes(k, key) /\ (sub = <<>> \/ includes(k, sub))

\* stale: the latest invalidation overtook a request, and no request has
\* started since
Log(op, key, sub, data, ttl, ret) ==
  [op |-> op, key |-> key, sub |-> sub, data |-> data, ttl |-> ttl,
   ret |-> ret,
   size0 |-> IF op \in {"set", "get", "cleanup", "clear"} THEN Len(cache) ELSE 0,
   hadKey |-> IF op \in {"set", "get"} THEN MapHas(cache, key) ELSE FALSE,
   slot |-> 0, outcome |-> "", tier |-> "", chroma |-> "", vals |-> <<>>,
   payloads |-> IF op \in {"clear", "reload"} THEN 0 ELSE last.payloads,
   absents |-> IF op \in {"clear", "reload"} THEN 0 ELSE last.absents,
   report |-> NoReport,
   stale |-> IF op \in {"clear", "invalidateTopic"} THEN Overtaken(op, key, sub)
             ELSE IF op = "reload" THEN FALSE
             ELSE last.stale]

Init ==
  /\ cache = <<>>
  /\ stats = [hits |-> 0, misses |-> 0]
  /\ storage = {}
  /\ now = 0
  /\ last = [op |-> "init", key |-> <<>>, sub |-> <<>>, data |-> Undefined,
             ttl |-> 0, ret |-> Undefined, size0 |-> 0, hadKey |-> FALSE,
             slot |-> 0, outcome |-> "", tier |-> "", chroma |-> "", vals |-> <<>>,
             payloads |-> 0, absents |-> 0, report |-> NoReport,
             stale |-> FALSE]
  /\ reqs = [s \in Slots |-> IdleRequest]
  /\ probes = <<>>
  /\ page = InitialPage

Install(c) ==
  /\ cache' = c.cache
  /\ storage' = c.storage
  /\ stats' = c.stats

---------------------------------------------------------------------------
(* Cache operations called directly; P, D, T are the parameter sets *)

Set(P, D, T) ==
  \E params \in P, data \in D, ttl \in T :
    /\ Install(set(Store, params, data, ttl, now))
    /\ last' = Log("set", generateKey(params), <<>>, data, ttl, Undefined)
    /\ UNCHANGED <<now, reqs, probes, page>>

GetUpTo(P, max) ==
  \E params \in P :
    /\ stats.hits + stats.misses < max
    /\ LET r == get(Store, params, now)
       IN /\ Install(r.store)
          /\ last' = [Log("get", generateKey(params), <<>>, Undefined, 0, r.ret)
                        EXCEPT !.payloads = IF r.ret # Null THEN @ + 1 ELSE @,
                               !.absents = IF r.ret = Null THEN @ + 1 ELSE @]
    /\ UNCHANGED <<now, reqs, probes, page>>

Get(P) == GetUpTo(P, MaxGets)

GetStats ==
  /\ last' = [Log("getStats", <<>>, <<>>, Undefined, 0, Undefined)
               EXCEPT !.report = getStats(Store)]
  /\ UNCHANGED <<cache, stats, storage, now, reqs, probes, page>>

InvalidateTopic(P) ==
  \E topicId \in {p.topicId : p \in P},
     subtopicId \in {<<>>} \cup {p.subtopicId : p \in P} :
    /\ Install(invalidateTopic(Store, topicId, subtopicId))
    /\ last' = Log("invalidateTopic", topicId, subtopicId, Undefined, 0, Undefined)
    /\ UNCHANGED <<now, reqs, probes, page>>

Clear ==
  /\ Install(clear(Store))
  /\ last' = Log("clear", <<>>, <<>>, Undefined, 0, Undefined)
  /\ UNCHANGED <<now, reqs, probes, page>>

\* the setInterval callback of startCleanupTimer
Cleanup ==
  /\ Install(cleanup(Store, now))
  /\ last' = Log("cleanup", <<>>, <<>>, Undefined, 0, Undefined)
  /\ UNCHANGED <<now, reqs, probes, page>>

\* the page is loaded again: the module is evaluated anew and the singleton
\* is constructed with an empty Map, while localStorage persists
Reload ==
  /\ cache' = <<>>
  /\ stats' = [hits |-> 0, misses |-> 0]
  /\ reqs' = [s \in Slots |-> IdleRequest]
  /\ last' = Log("reload", <<>>, <<>>, Undefined, 0, Undefined)
  /\ UNCHANGED <<storage, now, probes, page>>

Tick ==
  /\ now < MaxTime
  /\ now' = now + 1
  /\ last' = Log("tick", <<>>, <<>>, Undefined, 0, Undefined)
  /\ UNCHANGED <<cache, stats, storage, reqs, probes, page>>

\* the cache with two keys, every payload and every TTL
Next ==
  \/ Set(TwoParams, TestPayloads, TestTTLs)
  \/ Get(TwoParams)
  \/ InvalidateTopic(TwoParams)
  \/ Clear
  \/ Cleanup
  \/ Reload
  \/ Tick

Spec == Init /\ [][Next]_vars

\* the cache with more keys than its capacity
NextFill ==
  \/ Set(FillParams, OnePayload, {DEFAULT_TTL})
  \/ Get(FillParams)
  \/ InvalidateTopic(FillParams)
  \/ Clear
  \/ Cleanup
  \/ Reload
  \/ Tick

SpecFill == Init /\ [][NextFill]_vars

\* the counters and their report, with up to MaxStatGets calls of get
MaxStatGets == 4

NextStats ==
  \/ Set(TwoParams, OnePayload, {FALLBACK_TTL})
  \/ GetUpTo(TwoParams, MaxStatGets)
  \/ GetStats
  \/ InvalidateTopic(TwoParams)
  \/ Clear
  \/ Cleanup
  \/ Reload
  \/ Tick

SpecStats == Init /\ [][NextStats]_vars

\* one lifetime of the cache, from its construction over an empty
\* localStorage
NextSession ==
  \/ Set(FillParams, OnePayload, {FALLBACK_TTL})
  \/ Get(FillParams)
  \/ InvalidateTopic(FillParams)
  \/ Clear
  \/ Cleanup
  \/ Tick

SpecSession == Init /\ [][NextSession]_vars

\* localStorage starts to refuse writes and removals
MirrorFails ==
  /\ ~throws(storage)
  /\ storage' = storage \cup {Failing}
  /\ last' = Log("mirrorFails", <<>>, <<>>, Undefined, 0, Undefined)
  /\ UNCHANGED <<cache, stats, now, reqs, probes, page>>

\* the cache over a localStorage that fails from some moment on
NextMirror ==
  \/ Set(TwoParams, OnePayload, {FALLBACK_TTL})
  \/ Get(TwoParams)
  \/ InvalidateTopic(TwoParams)
  \/ Clear
  \/ Cleanup
  \/ Tick
  \/ MirrorFails

SpecMirror == Init /\ [][NextMirror]_vars

---------------------------------------------------------------------------
(* Requests to the orchestrator *)

\* the calls the pages make: the topic list of a subject, the content, the
\* main quiz and the exam quiz of a subtopic
Calls ==
  { Request("topics", "idle", <<>>, <<>>, S_mathematics, S_g, "", 10, Undefined, ""),
    Request("content", "idle", S_da, S_x, S_mathematics, S_g, "", 5, Undefined, ""),
    Request("quiz", "idle", S_da, S_x, S_mathematics, S_g, "main", 0, Undefined, ""),
    Request("quiz", "idle", S_da, S_x, S_mathematics, S_g, "exam", 0, Undefined, "") }

RequestLog(op, s, q, outcome, part) ==
  [Log(op, generateKey(RequestParams(q)), <<>>, Undefined, 0, part.ret)
     EXCEPT !.slot = s, !.outcome = outcome, !.tier = part.tier,
            !.stale = IF op = "call" /\ ~part.done THEN FALSE ELSE @]

\* what a part leaves of the request: returned, or suspended at nextpc
Proceed(s, q, part, nextpc) ==
  reqs' = [reqs EXCEPT ![s] =
             IF part.done
             THEN [q EXCEPT !.pc = "done", !.ret = part.ret, !.tier = part.tier]
             ELSE [q EXCEPT !.pc = nextpc]]

\* a call from a slot of S with arguments of Q: the cache lookup, then the
\* health probe is sent unless the lookup returned a payload
Call(S, Q) ==
  \E s \in S, q \in Q :
    /\ reqs[s].pc = "idle"
    /\ stats.hits + stats.misses < MaxGets
    /\ LET part == cacheLookup(Store, q, now)
       IN /\ Install(part.store)
          /\ Proceed(s, q, part, "health")
          /\ probes' = IF part.done THEN probes ELSE Append(probes, now)
          /\ last' = RequestLog("call", s, q, "", part)
    /\ UNCHANGED <<now, page>>

\* the health probe answers
HealthReply ==
  \E s \in Slots, h \in HealthOutcomes :
    /\ reqs[s].pc = "health"
    /\ LET q == reqs[s]
           part == IF q.kind = "topics" THEN getAITopicsForSubject_status(Store, q, h, now)
                   ELSE IF q.kind = "quiz" THEN getAIQuizForTopic_status(Store, q, h, now)
                   ELSE getAIContentForSubtopic_status(Store, q, h, now)
       IN /\ Install(part.store)
          /\ Proceed(s, q, part, "generate")
          /\ last' = RequestLog("health", s, q, h, part)
    /\ UNCHANGED <<now, probes, page>>

\* the outcomes a request suspended at its generation can receive: the
\* status of the retrieval gateway, the generations of the try and of the
\* catch block and the validation of each card; only a content request
\* consults the retrieval gateway, and only the retrieval-enhanced tier
\* generates twice and validates
NoVals == [i \in 1..Len(ResponseContent) |-> [kind |-> "nodocs", avgDistance |-> 0]]

GenerateOutcomes(q) ==
  IF q.kind # "content"
  THEN {[ch |-> "down", g1 |-> g, g2 |-> "ok", vals |-> NoVals] : g \in GenOutcomes}
  ELSE {[ch |-> ch, g1 |-> g, g2 |-> "ok", vals |-> NoVals] :
          ch \in {"down", "nocollection"}, g \in GenOutcomes}
       \cup {[ch |-> "ready", g1 |-> "malformed", g2 |-> g, vals |-> NoVals] :
               g \in GenOutcomes}
       \cup {[ch |-> "ready", g1 |-> g, g2 |-> "ok", vals |-> v] :
               g \in {"ok", "error"},
               v \in [1..Len(ResponseContent) -> ValOutcomes]}

\* the retrieval gateway and the generation service answer
GenerateReply ==
  \E s \in Slots :
    /\ reqs[s].pc = "generate"
    /\ \E o \in GenerateOutcomes(reqs[s]) :
         LET q == reqs[s]
             part == IF q.kind = "topics"
                     THEN getAITopicsForSubject_generate(Store, q, o.g1, now)
                     ELSE IF q.kind = "quiz"
                     THEN getAIQuizForTopic_generate(Store, q, o.g1, now)
                     ELSE getAIContentForSubtopic_generate(Store, q, o.ch, o.g1, o.g2,
                                                           o.vals, now)
         IN /\ Install(part.store)
            /\ Proceed(s, q, part, "generate")
            /\ last' = [RequestLog("generate", s, q, o.g1, part)
                          EXCEPT !.chroma = IF q.kind = "content" THEN o.ch ELSE "",
                                 !.vals = IF q.kind = "content" /\ o.ch = "ready"
                                             /\ o.g1 # "malformed"
                                          THEN o.vals ELSE <<>>]
    /\ UNCHANGED <<now, probes, page>>

\* the caller has taken the result
Return ==
  \E s \in Slots :
    /\ reqs[s].pc = "done"
    /\ reqs' = [reqs EXCEPT ![s] = IdleRequest]
    /\ last' = [Log("return", <<>>, <<>>, Undefined, 0, Undefined) EXCEPT !.slot = s]
    /\ UNCHANGED <<cache, stats, storage, now, probes, page>>

\* the requests of one page session, one at a time
NextOrch ==
  \/ Call({1}, Calls)
  \/ HealthReply
  \/ GenerateReply
  \/ Return
  \/ Tick

SpecOrch == Init /\ [][NextOrch]_vars

\* the content request of the lesson page, made from two places at once
\* (the page's loader and a preload, or two renders of the page)
ContentCalls == {q \in Calls : q.kind = "content"}

\* two content requests for the same key interleaved at their awaits
NextRace ==
  \/ Call(Slots, ContentCalls)
  \/ HealthReply
  \/ GenerateReply
  \/ Return
  \/ Tick

SpecRace == Init /\ [][NextRace]_vars

\* requests of different kinds: the topic list of a subject with the default
\* count and with the count of the topics page, and the content of two
\* subtopics with the default count, one of them named by the route
\* /content/g/mathematics/topics/all
KeyCalls ==
  { Request("topics", "idle", <<>>, <<>>, S_mathematics, S_g, "", 5, Undefined, ""),
    Request("topics", "idle", <<>>, <<>>, S_mathematics, S_g, "", 10, Undefined, ""),
    Request("content", "idle", S_topics, S_all, S_mathematics, S_g, "", 5, Undefined, ""),
    Request("content", "idle", S_da, S_x, S_mathematics, S_g, "", 5, Undefined, "") }

\* topic-list and content requests of one page session, one at a time,
\* all within one time unit
NextKeys ==
  \/ Call({1}, KeyCalls)
  \/ HealthReply
  \/ GenerateReply
  \/ Return

SpecKeys == Init /\ [][NextKeys]_vars

MaxStarts == 2      \* requests that reach the health probe

\* one content request at a time, with the invalidations of
\* clearContentCache falling anywhere between its steps, all within one
\* time unit (no entry expires)
NextInvalidate ==
  \/ Len(probes) < MaxStarts /\ Call({1}, ContentCalls)
  \/ HealthReply
  \/ GenerateReply
  \/ Return
  \/ InvalidateTopic({RequestParams(q) : q \in ContentCalls})
  \/ Clear

SpecInvalidate == Init /\ [][NextInvalidate]_vars

\* the upstream call a request awaits is never answered: fetch is called
\* without a signal or a timer, so its promise never settles and the request
\* stays suspended at its await
Unanswered ==
  \E s \in Slots :
    /\ reqs[s].pc \in {"health", "generate"}
    /\ reqs' = [reqs EXCEPT ![s].pc = "unanswered"]
    /\ last' = [Log("unanswered", <<>>, <<>>, Undefined, 0, Undefined) EXCEPT !.slot = s]
    /\ UNCHANGED <<cache, stats, storage, now, probes, page>>

\* the requests of one page session with upstream calls that may stay
\* unanswered; an answer that arrives is handled (the event loop runs the
\* continuation of the await)
NextUnanswered ==
  \/ Call({1}, Calls)
  \/ HealthReply
  \/ GenerateReply
  \/ Unanswered
  \/ Return
  \/ Tick

SpecUnanswered ==
  /\ Init
  /\ [][NextUnanswered]_vars
  /\ WF_vars(HealthReply)
  /\ WF_vars(GenerateReply)

---------------------------------------------------------------------------
(* The topics page: the grouping of the topic list by level.  In the runs of
   this page the variable page holds the list shown and the route pushed. *)

MaxTopics == 3

\* a level that is missing (undefined) and the level 0 are both falsy
NoLevel == 0

TopicIds == <<"t1", "t2", "t3", "t4">>

\* topic.level || index + 1, for the 0-based index of reduce
levelOf(topic, index) == IF topic.level = NoLevel THEN index + 1 ELSE topic.level

RECURSIVE reduceByLevel(_, _, _)
\* displayTopics.reduce from the 0-based index on, with accumulator acc
reduceByLevel(displayTopics, index, acc) ==
  IF index >= Len(displayTopics) THEN acc
  ELSE LET topic == displayTopics[index + 1]
           level == levelOf(topic, index)
           acc1 == IF level \in DOMAIN acc THEN acc
                   ELSE [k \in DOMAIN acc \cup {level} |->
                           IF k = level THEN <<>> ELSE acc[k]]
       IN reduceByLevel(displayTopics, index + 1,
                        [acc1 EXCEPT ![level] = Append(@, topic)])

topicsByLevel(displayTopics) == reduceByLevel(displayTopics, 0, NoEntries)

RECURSIVE sortAscending(_)
\* the numbers of a set, sorted with (a, b) => a - b
sortAscending(S) ==
  IF S = {} THEN <<>>
  ELSE LET least == CHOOSE a \in S : \A b \in S : a <= b
       IN <<least>> \o sortAscending(S \ {least})

levels(displayTopics) == sortAscending(DOMAIN topicsByLevel(displayTopics))

\* variant: the first topic of the list is started
handleGetStarted_firstListed(displayTopics) ==
  IF Len(displayTopics) > 0 THEN <<displayTopics[1].topic_id>> ELSE <<>>

\* the topic whose introduction the route pushed by handleGetStarted names
\* (generated topics), or none
handleGetStarted(displayTopics) ==
  LET byLevel == topicsByLevel(displayTopics)
      ls == levels(displayTopics)
  IN IF Len(ls) > 0 /\ Len(byLevel[ls[1]]) > 0
     THEN <<byLevel[ls[1]][1].topic_id>>
     ELSE <<>>

RECURSIVE TopicLists(_)
\* the lists of n topics, every level missing or 1..MaxTopics
TopicLists(n) ==
  IF n = 0 THEN {<<>>}
  ELSE {Append(l, TopicDescription(TopicIds[n], lv)) :
          l \in TopicLists(n - 1), lv \in 0..MaxTopics}

InitTopics ==
  /\ cache = <<>>
  /\ stats = [hits |-> 0, misses |-> 0]
  /\ storage = {}
  /\ now = 0
  /\ last = [op |-> "loaded", key |-> <<>>, sub |-> <<>>, data |-> Undefined,
             ttl |-> 0, ret |-> Undefined, size0 |-> 0, hadKey |-> FALSE,
             slot |-> 0, outcome |-> "", tier |-> "", chroma |-> "", vals |-> <<>>,
             payloads |-> 0, absents |-> 0, report |-> NoReport,
             stale |-> FALSE]
  /\ reqs = [s \in Slots |-> IdleRequest]
  /\ probes = <<>>
  /\ \E n \in 0..MaxTopics :
       \E l \in TopicLists(n) : page = [displayTopics |-> l, route |-> <<>>]

\* the learner presses get started
GetStarted ==
  /\ page.route = <<>>
  /\ handleGetStarted(page.displayTopics) # <<>>
  /\ page' = [page EXCEPT !.route = handleGetStarted(page.displayTopics)]
  /\ last' = Log("getStarted", <<>>, <<>>, Undefined, 0, Undefined)
  /\ UNCHANGED <<cache, stats, storage, now, reqs, probes>>

NextTopics == GetStarted

SpecTopics == InitTopics /\ [][NextTopics]_vars

---------------------------------------------------------------------------
(* preloadContent: slot i holds the promise of the i-th topic *)

\* the two subtopics preloadNextTopics passes: the next one of the topic and
\* the first one of the next topic
topicsToPreload ==
  [s \in Slots |->
     Request("preload", "idle", KeyList[s].topicId, KeyList[s].subtopicId,
             KeyList[s].subjectId, KeyList[s].gradeId, "", 5, Undefined, "")]

PreloadKey(q) ==
  generateKey(CacheKey(S_content, q.topicId, q.subtopicId, q.subjectId,
                       q.gradeId, <<>>, 5))

\* variant: the loader is called whatever the cache holds
preloadContent_examine_always(c, q, t) ==
  LET r == getCachedContent(c, q.topicId, q.subtopicId, q.subjectId, q.gradeId, 5, t)
  IN [store |-> r.store, pc |-> "loading"]

\* the callback of topics.map up to its await: skip if already cached, else
\* call the loader
preloadContent_examine(c, q, t) ==
  LET r == getCachedContent(c, q.topicId, q.subtopicId, q.subjectId, q.gradeId, 5, t)
  IN [store |-> r.store,
      pc |-> IF Truthy(r.ret) THEN "skipped" ELSE "loading"]

\* what a loader resolves with
LoaderContent == CHOOSE d \in OnePayload : TRUE

PreloadSettled == {"skipped", "cached", "failed"}

\* the number of preloads in a run
MaxPreloads == 2

\* preloadContent is called: the callbacks run one after the other, each up
\* to its await
PreloadStart ==
  /\ stats.hits + stats.misses < 2 * MaxPreloads
  /\ \A s \in Slots : reqs[s].pc = "idle" \/ reqs[s].tier = "resolved"
  /\ LET e1 == preloadContent_examine(Store, topicsToPreload[1], now)
         c1 == [cache |-> e1.store.cache, storage |-> e1.store.storage,
                stats |-> e1.store.stats]
         e2 == preloadContent_examine(c1, topicsToPreload[2], now)
     IN /\ Install(e2.store)
        /\ reqs' = [s \in Slots |->
                      [topicsToPreload[s] EXCEPT !.pc = IF s = 1 THEN e1.pc
                                                        ELSE e2.pc]]
  /\ last' = Log("preload", <<>>, <<>>, Undefined, 0, Undefined)
  /\ UNCHANGED <<now, probes, page>>

\* the loader of one topic resolves, and its content is cached, or rejects,
\* and the catch block warns
LoaderSettles ==
  \E s \in Slots, outcome \in {"ok", "reject"} :
    /\ reqs[s].kind = "preload"
    /\ reqs[s].pc = "loading"
    /\ LET q == reqs[s]
       IN IF outcome = "ok"
          THEN /\ Install(cacheContent(Store, q.topicId, q.subtopicId, q.subjectId,
                                       q.gradeId, LoaderContent, 5, now))
               /\ reqs' = [reqs EXCEPT ![s].pc = "cached", ![s].ret = LoaderContent]
          ELSE /\ reqs' = [reqs EXCEPT ![s].pc = "failed"]
               /\ UNCHANGED <<cache, stats, storage>>
    /\ last' = [Log("loaderSettles", PreloadKey(reqs[s]), <<>>, Undefined, 0,
                    Undefined)
                 EXCEPT !.slot = s, !.outcome = outcome]
    /\ UNCHANGED <<now, probes, page>>

\* every promise of the map has fulfilled: Promise.all fulfils
PreloadResolves ==
  /\ \A s \in Slots : /\ reqs[s].kind = "preload"
                       /\ reqs[s].pc \in PreloadSettled
                       /\ reqs[s].tier = ""
  /\ reqs' = [s \in Slots |-> [reqs[s] EXCEPT !.tier = "resolved"]]
  /\ last' = [Log("preloaded", <<>>, <<>>, Undefined, 0, Undefined)
               EXCEPT !.outcome = "resolved"]
  /\ UNCHANGED <<cache, stats, storage, now, probes, page>>

NextPreload ==
  \/ PreloadStart
  \/ LoaderSettles
  \/ PreloadResolves
  \/ Set({KeyList[1], KeyList[2]}, OnePayload, {FALLBACK_TTL})
  \/ Tick

SpecPreload == Init /\ [][NextPreload]_vars

---------------------------------------------------------------------------
(* The lesson page *)

\* what the three requests of loadAIContent can resolve with
LoadedContent ==
  { getFallbackContent(S_x, S_da, S_mathematics).v,
    withImage(generateContentForSubtopic("ok", S_x)).v }

LoadedMainQuiz ==
  { getFallbackQuiz(S_da, S_x, S_mathematics, "main").v,
    generateQuizForTopic("ok", S_x).v }

LoadedExamQuiz ==
  { getFallbackQuiz(S_da, S_x, S_mathematics, "exam").v,
    generateQuizForTopic("error", S_x).v }

\* the answers a learner can give to a question
Choices(q) == {q.correctAnswer, "another answer"}

PageLog(op) == Log(op, <<>>, <<>>, Undefined, 0, Undefined)

\* the route parameters change: the effect resets the state and starts the
\* loader
Navigate ==
  /\ ~page.isLoading
  /\ page' = [page EXCEPT !.contentState = "intro", !.currentCardIndex = 0,
                          !.quizAnswers = NoEntries, !.quizResults = NoEntries,
                          !.isLoading = TRUE]
  /\ last' = PageLog("navigate")
  /\ UNCHANGED <<cache, stats, storage, now, reqs, probes>>

\* the three requests of loadAIContent have resolved
Loaded ==
  \E contentData \in LoadedContent, mainQuizData \in LoadedMainQuiz,
     examQuizData \in LoadedExamQuiz :
    /\ page.isLoading
    /\ page' = [page EXCEPT !.content = contentData, !.mainQuiz = mainQuizData,
                            !.examQuiz = examQuizData, !.isLoading = FALSE]
    /\ last' = PageLog("loaded")
    /\ UNCHANGED <<cache, stats, storage, now, reqs, probes>>

\* the learner presses next on the card shown
Advance ==
  /\ canAdvance(page)
  /\ page' = completionEffect(handleNextCard(page))
  /\ last' = PageLog("advance")
  /\ UNCHANGED <<cache, stats, storage, now, reqs, probes>>

\* the learner selects an answer on the question shown
Select ==
  /\ canSelect(page)
  /\ \E answer \in Choices(currentContent(page)[page.currentCardIndex + 1]) :
       /\ page' = handleAnswerSelect(page, page.currentCardIndex, answer)
       /\ last' = [PageLog("select") EXCEPT
                    !.sub = <<answer>>,
                    !.hadKey = page.currentCardIndex \in DOMAIN page.quizAnswers,
                    !.key = IF page.currentCardIndex \in DOMAIN page.quizAnswers
                            THEN <<page.quizAnswers[page.currentCardIndex]>>
                            ELSE <<>>]
  /\ UNCHANGED <<cache, stats, storage, now, reqs, probes>>

NextLesson ==
  \/ Navigate
  \/ Loaded
  \/ Advance
  \/ Select

SpecLesson == Init /\ [][NextLesson]_vars

\* the three requests have resolved, each with a bundle or with an empty
\* list (a generation answered with no cards or no questions)
LoadedSparse ==
  \E contentData \in LoadedContent \cup {<<>>},
     mainQuizData \in LoadedMainQuiz \cup {<<>>},
     examQuizData \in LoadedExamQuiz \cup {<<>>} :
    /\ page.isLoading
    /\ page' = [page EXCEPT !.content = contentData, !.mainQuiz = mainQuizData,
                            !.examQuiz = examQuizData, !.isLoading = FALSE]
    /\ last' = PageLog("loaded")
    /\ UNCHANGED <<cache, stats, storage, now, reqs, probes>>

\* one lesson whose bundles may be empty
NextSparse ==
  \/ LoadedSparse
  \/ Advance
  \/ Select

SpecSparse == Init /\ [][NextSparse]_vars

\* Navigation while a load is in flight.  Slot 1 holds the load of the
\* subtopic the page was opened with and slot 2 the load of the subtopic
\* navigated to; a load is at "generate" while loadAIContent is suspended at
\* an await.
SubtopicA == S_x
SubtopicB == S_dat

Load(subtopicId) ==
  Request("content", "generate", S_da, subtopicId, S_mathematics, S_g, "", 5,
          Undefined, "")

\* the bundles the three requests of a load can resolve with
BundlesOf(subtopicId) ==
  {[content |-> c,
    mainQuiz |-> m,
    examQuiz |-> getFallbackQuiz(S_da, subtopicId, S_mathematics, "exam").v] :
     c \in {getFallbackContent(subtopicId, S_da, S_mathematics).v,
            withImage(generateContentForSubtopic("error", subtopicId)).v},
     m \in {getFallbackQuiz(S_da, subtopicId, S_mathematics, "main").v,
            generateQuizForTopic("error", subtopicId).v}}

InitNavigate ==
  /\ cache = <<>>
  /\ stats = [hits |-> 0, misses |-> 0]
  /\ storage = {}
  /\ now = 0
  /\ last = [op |-> "navigate", key |-> <<>>, sub |-> <<>>, data |-> Undefined,
             ttl |-> 0, ret |-> Undefined, size0 |-> 0, hadKey |-> FALSE,
             slot |-> 0, outcome |-> "", tier |-> "", chroma |-> "", vals |-> <<>>,
             payloads |-> 0, absents |-> 0, report |-> NoReport,
             stale |-> FALSE]
  /\ reqs = [s \in Slots |-> IF s = 1 THEN Load(SubtopicA) ELSE IdleRequest]
  /\ probes = <<>>
  /\ page = InitialPage

\* the route parameters change to those of subtopic B, before or after the
\* load of A has settled: the effect runs again in the same component (the resets, then
\* loadAIContent up to its first await); nothing cancels the earlier load.
\* When the router mounts a new component instead, the setters of the
\* earlier load no longer reach the page ("detached").
NavigateAgain ==
  /\ reqs[2].pc = "idle"
  /\ \E pc1 \in {reqs[1].pc, "detached"} :
       reqs' = [reqs EXCEPT ![1].pc = pc1, ![2] = Load(SubtopicB)]
  /\ page' = [page EXCEPT !.contentState = "intro", !.currentCardIndex = 0,
                          !.quizAnswers = NoEntries, !.quizResults = NoEntries,
                          !.isLoading = TRUE]
  /\ last' = [PageLog("navigate") EXCEPT !.slot = 2]
  /\ UNCHANGED <<cache, stats, storage, now, probes>>

\* Promise.all of a load resolves: the three setters, then finally; the
\* effect of the achievement depends on mainQuiz and runs again
LoadSettles ==
  \E s \in Slots :
    /\ reqs[s].pc = "generate"
    /\ \E b \in BundlesOf(reqs[s].subtopicId) :
         page' = completionEffect(
                   [page EXCEPT !.content = b.content, !.mainQuiz = b.mainQuiz,
                                !.examQuiz = b.examQuiz, !.isLoading = FALSE])
    /\ reqs' = [reqs EXCEPT ![s].pc = "done"]
    /\ last' = [PageLog("loaded") EXCEPT !.slot = s]
    /\ UNCHANGED <<cache, stats, storage, now, probes>>

NextNavigate ==
  \/ NavigateAgain
  \/ LoadSettles
  \/ Advance
  \/ Select

SpecNavigate == InitNavigate /\ [][NextNavigate]_vars

---------------------------------------------------------------------------
(* The score of the main quiz, over quizzes of every size up to MaxQuestions
   and every set of results *)

MaxQuestions == 8

GeneratedQuiz(n) ==
  [i \in 1..n |->
     Question(<<"Generated question ", toString(i)>>, "multiple_choice",
              <<"A", "B">>, "A")]

\* the page on entry to the review of the main quiz, before the effect
InitScore ==
  /\ cache = <<>>
  /\ stats = [hits |-> 0, misses |-> 0]
  /\ storage = {}
  /\ now = 0
  /\ last = [op |-> "advance", key |-> <<>>, sub |-> <<>>, data |-> Undefined,
             ttl |-> 0, ret |-> Undefined, size0 |-> 0, hadKey |-> FALSE,
             slot |-> 0, outcome |-> "", tier |-> "", chroma |-> "", vals |-> <<>>,
             payloads |-> 0, absents |-> 0, report |-> NoReport,
             stale |-> FALSE]
  /\ reqs = [s \in Slots |-> IdleRequest]
  /\ probes = <<>>
  /\ \E n \in 1..MaxQuestions :
       \E results \in [0..(n - 1) -> BOOLEAN] :
         page = [InitialPage EXCEPT !.contentState = "main-quiz-review",
                                    !.isLoading = FALSE,
                                    !.mainQuiz = GeneratedQuiz(n),
                                    !.quizResults = results]

Scored ==
  /\ last.op = "advance"
  /\ page' = completionEffect(page)
  /\ last' = PageLog("effect")
  /\ UNCHANGED <<cache, stats, storage, now, reqs, probes>>

NextScore == Scored

SpecScore == InitScore /\ [][NextScore]_vars

---------------------------------------------------------------------------
(* Properties of the cache store *)

HasStored(st, key) == \E r \in st : r.key = key

\* C1: a set(k, p, t) with t > 0 followed immediately by get(k) returns p,
\* whatever the store held before the set
C1_SetThenGet ==
  [][(last.op = "set" /\ last.ttl > 0 /\ last'.op = "get" /\ last'.key = last.key)
       => last'.ret = last.data]_vars

\* a get has just returned the payload of an entry written at this instant
\* into a store that is at capacity
C1_Witness ==
  /\ last.op = "get"
  /\ last.hadKey
  /\ last.size0 >= MAX_ENTRIES
  /\ MapGet(cache, last.key).timestamp = now
  /\ MapGet(cache, last.key).accessCount = 1
  /\ last.ret = MapGet(cache, last.key).data

C3_EvictsOldest ==
  [][(last'.op = "set" /\ Len(cache) = MAX_ENTRIES /\ ~MapHas(cache, last'.key))
       => \E i \in 1..Len(cache) :
            /\ \A j \in 1..Len(cache) :
                 cache[i].lastAccessed <= cache[j].lastAccessed
            /\ MapKeys(cache') = (MapKeys(cache) \ {cache[i].key}) \cup {last'.key}
            /\ Len(cache') = MAX_ENTRIES
            /\ \A j \in 1..Len(cache) :
                 j # i => /\ MapHas(cache', cache[j].key)
                          /\ MapGet(cache', cache[j].key) = cache[j]]_vars

\* a set of a new key has just evicted from a full store, and the entry
\* inserted first survived because it had been read after its insertion
C3_Witness ==
  /\ last.op = "set"
  /\ last.size0 = MAX_ENTRIES
  /\ ~last.hadKey
  /\ Len(cache) = MAX_ENTRIES
  /\ cache[1].accessCount > 0
  /\ cache[1].lastAccessed > cache[1].timestamp

\* C4: the number of in-memory entries never exceeds MAX_ENTRIES
C4_CapacityBound == Len(cache) <= MAX_ENTRIES

\* the topic field of a key: type, subject, grade, topic, subtopic
KeyTopic(key) == split(key, ":")[4]

\* C5: invalidateTopic(topicId) removes every entry whose key has topic
\* field topicId and leaves every other entry unchanged
C5_InvalidateExactlyTopic ==
  [][(last'.op = "invalidateTopic" /\ last'.sub = <<>>)
       => cache' = SelectSeq(cache, LAMBDA e : KeyTopic(e.key) # last'.key)]_vars

---------------------------------------------------------------------------
(* Properties of the orchestrator *)

\* the last step was a step of a request that returned in it
Completed ==
  /\ last.op \in {"call", "health", "generate"}
  /\ reqs[last.slot].pc = "done"

\* C6: when the health probe reports the generation service unavailable,
\* or available with the model not loaded, a content request returns the
\* static fallback bundle, and that bundle is not empty
C6_UnavailableGivesFallback ==
  (/\ last.op = "health"
   /\ last.outcome \in {"down", "loading"}
   /\ reqs[last.slot].kind = "content")
    => LET q == reqs[last.slot]
       IN /\ q.pc = "done"
          /\ q.ret = getFallbackContent(q.subtopicId, q.topicId, q.subjectId)
          /\ q.ret.t = "array"
          /\ Len(q.ret.v) > 0

C6_Witness ==
  /\ last.op = "health"
  /\ last.outcome = "loading"
  /\ reqs[last.slot].kind = "content"
  /\ reqs[last.slot].pc = "done"
  /\ Len(reqs[last.slot].ret.v) = 3

\* C7: a topics, content or quiz request that has returned has returned a
\* bundle, whatever the gateways answered
C7_ResolvesWithBundle ==
  \A s \in Slots : reqs[s].pc = "done" => reqs[s].ret.t = "array"

\* C8: when a request has returned, at whichever tier, the cache holds an
\* unexpired entry for the request's key whose payload is the returned value
C8_CompletionCached ==
  Completed
    => /\ MapHas(cache, last.key)
       /\ ~isExpired(MapGet(cache, last.key), now)
       /\ MapGet(cache, last.key).data = reqs[last.slot].ret

\* a content request that reached the static fallback through the catch block
C8_Witness ==
  /\ Completed
  /\ last.op = "generate"
  /\ reqs[last.slot].kind = "content"
  /\ reqs[last.slot].tier = "static"
  /\ MapHas(cache, last.key)
  /\ MapGet(cache, last.key).data = reqs[last.slot].ret

\* C9: the entry written for a static fallback result has a time to live
\* strictly shorter than the one used for generated results
C9_FallbackShorterTTL ==
  (Completed /\ reqs[last.slot].tier = "static")
    => LET e == MapGet(cache, last.key)
       IN e.expiresAt - e.timestamp < AI_TTL

\* C10: a request made while the cache holds an unexpired entry for its key
\* returns that entry's payload in the same step, before any health probe,
\* retrieval call or generation call
C10_LiveEntryNoUpstream ==
  [][(/\ last'.op = "call"
      /\ MapHas(cache, last'.key)
      /\ ~isExpired(MapGet(cache, last'.key), now))
       => /\ reqs'[last'.slot].pc = "done"
          /\ reqs'[last'.slot].ret = MapGet(cache, last'.key).data]_vars

\* the last step was the generation step of a content request that found
\* the generation service ready and the retrieval collection present
RetrievalEnhanced ==
  /\ Completed
  /\ last.op = "generate"
  /\ reqs[last.slot].kind = "content"
  /\ last.chroma = "ready"

\* every card of the bundle carries a validation whose curriculumAlignment,
\* in tenths, lies between 0 and 10
AllValidated(bundle) ==
  /\ bundle.t = "array"
  /\ \A i \in 1..Len(bundle.v) :
       /\ bundle.v[i].validation.present
       /\ bundle.v[i].validation.curriculumAlignment \in 0..10

C12_OneProbePerInstant ==
  \A i, j \in 1..Len(probes) : i # j => probes[i] # probes[j]

\* C13: every request that has gone past the cache lookup eventually
\* completes with a result, also when an upstream call is never answered
C13_EventuallyCompletes ==
  \A s \in Slots : (reqs[s].pc = "health") ~> (reqs[s].pc = "done")

\* both slots hold a completed request for the same key, both missed the
\* cache, and the last step completed one of them
BothCompleted ==
  /\ Completed
  /\ \A s \in Slots : reqs[s].pc = "done" /\ reqs[s].tier # "cache"
  /\ \A s \in Slots : generateKey(RequestParams(reqs[s])) = last.key

---------------------------------------------------------------------------
(* Properties of the lesson page *)

\* the states of the lesson in the order of the ContentState type
StateOrder ==
  <<"intro", "content", "thank-you", "main-quiz", "main-quiz-review",
    "exam-practice", "exam-review", "completion">>

Position(st) == CHOOSE i \in 1..Len(StateOrder) : StateOrder[i] = st

\* C15: the lesson state changes only by an advance, and then to the
\* immediate successor of the state it leaves in the order intro, content,
\* thank-you, main-quiz, main-quiz-review, exam-practice, exam-review,
\* completion; the only other change is the reset to intro when the route
\* changes, which starts a new session.
C15_AdvanceToSuccessor ==
  [][page'.contentState # page.contentState =>
       \/ /\ last'.op = "advance"
          /\ Position(page'.contentState) = Position(page.contentState) + 1
       \/ /\ last'.op = "navigate"
          /\ page'.contentState = "intro"]_vars

\* a session has advanced through every state to completion
C15_Witness ==
  /\ last.op = "advance"
  /\ page.contentState = "completion"

\* C16: an advance at the last card of a state's sequence moves to the next
\* state (from intro, whose sequence has one card, to content at cursor 0;
\* from the last card of exam-review to completion), and in completion
\* handleNextCard leaves the state, the cursor, the answers and the results
\* as they are.
C16_LastCardMovesOn ==
  [][/\ (last'.op = "advance"
           /\ page.currentCardIndex = Len(currentContent(page)) - 1) =>
          /\ Position(page'.contentState) = Position(page.contentState) + 1
          /\ page.contentState = "intro" =>
               (page'.contentState = "content" /\ page'.currentCardIndex = 0)
          /\ page.contentState = "exam-review" =>
               page'.contentState = "completion"
     /\ page'.contentState = "completion" =>
          handleNextCard(page') = page']_vars

\* completion has been reached from the last card of a review of four
\* questions, and a further advance changes nothing
C16_Witness ==
  /\ last.op = "advance"
  /\ page.contentState = "completion"
  /\ Len(page.examQuiz) = 4
  /\ page.currentCardIndex = 3
  /\ handleNextCard(page) = page

\* C17: an advance with the cursor before the end of the current sequence
\* adds one to the cursor and keeps the state; an advance with the cursor at
\* the end changes the state and leaves the cursor at zero, on each of the
\* seven transitions.
C17_CursorResetOnTransition ==
  [][last'.op = "advance" =>
       IF page.currentCardIndex < Len(currentContent(page)) - 1
       THEN /\ page'.currentCardIndex = page.currentCardIndex + 1
            /\ page'.contentState = page.contentState
       ELSE /\ page'.contentState # page.contentState
            /\ page'.currentCardIndex = 0]_vars

\* the quiz a quiz state or its review state is about
QuizOf(st) ==
  IF st \in {"main-quiz", "main-quiz-review"} THEN page.mainQuiz
  ELSE page.examQuiz

\* C18: on leaving main-quiz or exam-practice the result of every question
\* index of that quiz is true exactly when the answer recorded for the index
\* at that moment equals the question's correct answer (false when nothing
\* is recorded), and the results do not change while the page stays in the
\* paired review state.
C18_ScoredOnLeaving ==
  [][/\ (page.contentState \in {"main-quiz", "exam-practice"}
           /\ page'.contentState # page.contentState
           /\ last'.op = "advance") =>
          /\ DOMAIN page'.quizResults =
               0..(Len(QuizOf(page.contentState)) - 1)
          /\ \A i \in DOMAIN page'.quizResults :
               page'.quizResults[i] =
                 (/\ i \in DOMAIN page.quizAnswers
                  /\ page.quizAnswers[i] =
                       QuizOf(page.contentState)[i + 1].correct_answer)
     /\ (page.contentState \in {"main-quiz-review", "exam-review"}
           /\ page'.contentState = page.contentState) =>
          page'.quizResults = page.quizResults]_vars

\* the exam has been scored with a correct, a wrong and a missing answer,
\* and the review has moved past its first card
C18_Witness ==
  /\ page.contentState = "exam-review"
  /\ page.currentCardIndex > 0
  /\ \E i, j, k \in DOMAIN page.quizResults :
       /\ page.quizResults[i]
       /\ ~page.quizResults[j]
       /\ ~page.quizResults[k]
       /\ j # k

\* C19: a selection for a question index records the selected answer for
\* that index in place of an earlier one and leaves the answers of the other
\* indices as they are, and the answer recorded last is the one compared
\* with the correct answer when the quiz is scored.
C19_LaterSelectionWins ==
  [][/\ last'.op = "select" =>
          /\ page.contentState \in {"main-quiz", "exam-practice"}
          /\ DOMAIN page'.quizAnswers =
               DOMAIN page.quizAnswers \cup {page.currentCardIndex}
          /\ \A i \in DOMAIN page'.quizAnswers :
               page'.quizAnswers[i] =
                 IF i = page.currentCardIndex THEN last'.sub[1]
                 ELSE page.quizAnswers[i]
     /\ (last'.op = "advance"
           /\ page.contentState \in {"main-quiz", "exam-practice"}
           /\ page'.contentState # page.contentState) =>
          \A i \in DOMAIN page.quizAnswers :
            page'.quizResults[i] =
              (page.quizAnswers[i] =
                 QuizOf(page.contentState)[i + 1].correct_answer)]_vars

\* a second, different selection has just been made for a question while
\* another question keeps its answer
C19_Witness ==
  /\ last.op = "select"
  /\ last.hadKey
  /\ last.key # last.sub
  /\ page.quizAnswers[page.currentCardIndex] = last.sub[1]
  /\ \E j \in DOMAIN page.quizAnswers : j # page.currentCardIndex

\* C20: within a lesson the recorded answers change only by a selection made
\* in main-quiz or exam-practice, or by the clearing on entry to one of these
\* two states; in intro, content, thank-you, the two review states and
\* completion no selection is made and no answer changes.  (A change of
\* route starts the lesson anew with no answers.)
C20_AnswersChangeOnlyInQuiz ==
  [][/\ last'.op = "select" =>
          page.contentState \in {"main-quiz", "exam-practice"}
     /\ page'.quizAnswers # page.quizAnswers =>
          \/ /\ last'.op = "select"
             /\ page.contentState \in {"main-quiz", "exam-practice"}
             /\ page'.contentState = page.contentState
          \/ /\ last'.op = "advance"
             /\ page'.contentState \in {"main-quiz", "exam-practice"}
             /\ page'.contentState # page.contentState
             /\ page'.quizAnswers = NoEntries
          \/ /\ last'.op = "navigate"
             /\ page'.contentState = "intro"
             /\ page'.quizAnswers = NoEntries]_vars

\* the answers of the main quiz were kept through its review and have just
\* been cleared on entry to the exam
C20_Witness ==
  /\ last.op = "advance"
  /\ page.contentState = "exam-practice"
  /\ page.quizAnswers = NoEntries
  /\ \E i \in DOMAIN page.quizResults : page.quizResults[i]

\* C21: whenever the page enters main-quiz or exam-practice the recorded
\* answers are empty, so the answers compared with the exam's questions when
\* the exam is scored were all selected during the exam.
C21_AnswersEmptyOnQuizEntry ==
  [][(page'.contentState \in {"main-quiz", "exam-practice"}
        /\ page'.contentState # page.contentState) =>
       page'.quizAnswers = NoEntries]_vars

\* the exam has just been entered with no answers after a main quiz in which
\* an answer was selected and scored as correct
C21_Witness ==
  /\ last.op = "advance"
  /\ page.contentState = "exam-practice"
  /\ page.currentCardIndex = 0
  /\ DOMAIN page.quizAnswers = {}
  /\ Len(page.mainQuiz) = 2
  /\ page.quizResults[0] /\ page.quizResults[1]

\* the number of true results and the number of questions of the main quiz
CorrectCount == Cardinality({i \in DOMAIN page.quizResults : page.quizResults[i]})

TotalCount == Len(page.mainQuiz)

\* s is the quotient num / den rounded to the nearest integer
IsRounded(s, num, den) ==
  /\ 2 * s * den - den <= 2 * num
  /\ 2 * num < 2 * s * den + den

\* C22: for a main quiz of TotalCount questions with CorrectCount true
\* results the score shown is round(CorrectCount / TotalCount * 100) (75 for
\* 3 of 4) and the experience reward is round(30 * score / 100), a whole
\* number that does not decrease when the score grows.
C22_ScoreAndReward ==
  /\ last.op = "effect" =>
       \E score \in 0..100 :
         /\ IsRounded(score, CorrectCount * 100, TotalCount)
         /\ page.achievementData.description =
              <<"You scored ", toString(score), "% on this quiz">>
         /\ page.achievementData.xp \in 0..30
         /\ IsRounded(page.achievementData.xp, 30 * score, 100)
         /\ (CorrectCount = 3 /\ TotalCount = 4) => score = 75
  /\ \A s1, s2 \in 0..100 :
       s1 <= s2 => Math_round(30 * s1, 100) <= Math_round(30 * s2, 100)

\* a quiz of eight questions with one correct answer has been scored: 12.5
\* is shown as 13, and the reward is 4
C22_Witness ==
  /\ last.op = "effect"
  /\ TotalCount = 8
  /\ CorrectCount = 1
  /\ page.achievementData.description =
       <<"You scored ", toString(13), "% on this quiz">>
  /\ page.achievementData.xp = 4

---------------------------------------------------------------------------
(* Properties of the counters *)

\* the report counts the gets that returned a payload as hits and the gets
\* that returned null as misses
ReportCountsGets ==
  /\ last.report.hits = last.payloads
  /\ last.report.misses = last.absents

\* C23 as stated: the reported hitRate is exactly hits / (hits + misses) * 100
\* (here in hundredths of a percent), and 0 when no get was made.
C23_Original ==
  last.op = "getStats" =>
    /\ ReportCountsGets
    /\ last.report.hitRate * (last.payloads + last.absents) =
         last.payloads * 10000

\* C23: after any sequence of get calls since the last clear, getStats
\* reports as hits and misses the numbers of gets that returned a payload and
\* that returned null, and as hitRate the value hits / (hits + misses) * 100
\* rounded to two decimal places (75 for 3 hits and 1 miss, 33.33 for 1 hit
\* and 2 misses), and 0 when no get was made.
C23_HitRateRounded ==
  last.op = "getStats" =>
    /\ ReportCountsGets
    /\ IF last.payloads + last.absents = 0
       THEN last.report.hitRate = 0
       ELSE IsRounded(last.report.hitRate, last.payloads * 10000,
                      last.payloads + last.absents)
    /\ (last.payloads = 3 /\ last.absents = 1) => last.report.hitRate = 7500
    /\ (last.payloads = 1 /\ last.absents = 2) => last.report.hitRate = 3333

\* the report after three gets that returned a payload and one that did not
C23_Witness ==
  /\ last.op = "getStats"
  /\ last.payloads = 3
  /\ last.absents = 1
  /\ last.report.hitRate = 7500

\* C24: every get adds one to exactly one of the two counters, to hits when
\* it returns a payload (also one loaded from localStorage) and to misses
\* when it returns null (also for an expired entry); no other operation
\* changes the counters except clear, which sets both to 0 (as does the
\* construction of the cache when the page is loaded again); so the counters
\* equal the numbers of gets since then.
C24_OneCounterPerGet ==
  [][/\ last'.op = "get" =>
          IF last'.ret # Null
          THEN stats' = [stats EXCEPT !.hits = @ + 1]
          ELSE stats' = [stats EXCEPT !.misses = @ + 1]
     /\ last'.op # "get" =>
          \/ stats' = stats
          \/ /\ last'.op \in {"clear", "reload"}
             /\ stats' = [hits |-> 0, misses |-> 0]
     /\ stats'.hits = last'.payloads
     /\ stats'.misses = last'.absents]_vars

\* a get has returned a payload loaded from localStorage, after another get
\* had returned null
C24_Witness ==
  /\ last.op = "get"
  /\ ~last.hadKey
  /\ last.ret # Null
  /\ stats.hits >= 1
  /\ stats.misses >= 1

---------------------------------------------------------------------------
(* Further properties of the cache store *)

\* C25: when a set of a new key finds the store at capacity and several
\* entries share the oldest lastAccessed, the entry evicted is the one among
\* them that was created first (the smallest timestamp).
C25_TieEvictsEarliestCreated ==
  [][(last'.op = "set" /\ Len(cache) >= MAX_ENTRIES /\ ~MapHas(cache, last'.key))
       => \A i \in 1..Len(cache) :
            ~MapHas(cache', cache[i].key) =>
              \A j \in 1..Len(cache) :
                cache[j].lastAccessed = cache[i].lastAccessed =>
                  cache[i].timestamp <= cache[j].timestamp]_vars

\* C26: a sweep removes exactly the entries whose expiresAt is before the
\* time it runs; every other entry stays as it is (payload, timestamp,
\* expiresAt, lastAccessed, accessCount) and in its place, and the hit and
\* miss counters are unchanged, wherever the sweep falls between the gets
\* and sets.
C26_SweepRemovesOnlyExpired ==
  [][last'.op = "cleanup" =>
       /\ cache' = SelectSeq(cache, LAMBDA e : ~(now > e.expiresAt))
       /\ stats' = stats]_vars

\* a sweep has removed one of two entries and left an entry that had been
\* read
C26_Witness ==
  /\ last.op = "cleanup"
  /\ last.size0 = 2
  /\ Len(cache) = 1
  /\ cache[1].accessCount > 0
  /\ stats.hits > 0

---------------------------------------------------------------------------
(* Further properties of the orchestrator *)

\* C27: when the generation call fails after the health probe reported the
\* service available with the model loaded, a content or quiz request
\* returns the static fallback bundle, the one it returns when the service is
\* unavailable.
C27_FailedGenerationGivesStaticFallback ==
  (/\ last.op = "generate"
   /\ last.outcome = "error"
   /\ reqs[last.slot].kind \in {"content", "quiz"})
    => LET q == reqs[last.slot]
       IN /\ q.pc = "done"
          /\ q.ret = IF q.kind = "content"
                     THEN getFallbackContent(q.subtopicId, q.topicId, q.subjectId)
                     ELSE getFallbackQuiz(q.topicId, q.subtopicId, q.subjectId,
                                          q.quizType)

---------------------------------------------------------------------------
(* Properties of the mirror in localStorage *)

\* the store with the same records in a localStorage that accepts writes
WorkingStore == [Store EXCEPT !.storage = @ \ {Failing}]

\* the entries in memory, the counters and the value returned that an
\* operation leaves
InMemory(c) == [cache |-> c.cache, stats |-> c.stats]

\* C28: when localStorage refuses the write or the removal during a set, a
\* get, an eviction, an invalidation or a sweep, the operation completes and
\* leaves in memory, and returns, what it leaves and returns over a
\* localStorage with the same records that accepts them; a get of a key that
\* was set and is in memory unexpired returns the payload that was set.
C28_MirrorFailureSwallowed ==
  [][throws(storage) =>
       /\ last'.op = "set" =>
            /\ \E params \in TwoParams :
                 /\ generateKey(params) = last'.key
                 /\ InMemory(Store)' =
                      InMemory(set(WorkingStore, params, last'.data, last'.ttl, now))
            /\ MapHas(cache', last'.key)
            /\ MapGet(cache', last'.key).data = last'.data
       /\ last'.op = "get" =>
            /\ \E params \in TwoParams :
                 /\ generateKey(params) = last'.key
                 /\ InMemory(Store)' = InMemory(get(WorkingStore, params, now).store)
                 /\ last'.ret = get(WorkingStore, params, now).ret
            /\ (MapHas(cache, last'.key)
                  /\ ~(now > MapGet(cache, last'.key).expiresAt)) =>
                 last'.ret = MapGet(cache, last'.key).data
       /\ last'.op = "invalidateTopic" =>
            InMemory(Store)' =
              InMemory(invalidateTopic(WorkingStore, last'.key, last'.sub))
       /\ last'.op = "cleanup" =>
            InMemory(Store)' = InMemory(cleanup(WorkingStore, now))
       /\ last'.op = "clear" =>
            InMemory(Store)' = InMemory(clear(WorkingStore))]_vars

\* a set on a full store has evicted the other entry and stored its payload
\* in memory while localStorage refused both the removal and the write
C28_Witness ==
  /\ last.op = "set"
  /\ last.size0 = MAX_ENTRIES
  /\ Len(cache) < MAX_ENTRIES
  /\ throws(storage)
  /\ MapGet(cache, last.key).data = last.data
  /\ \E r \in storage \ {Failing} : ~MapHas(cache, r.key)
  /\ \A r \in storage : r.key = last.key => r.timestamp < now

\* C29: over a localStorage that works and was empty when the cache was
\* constructed, after every set, get, eviction, deletion of an expired entry,
\* invalidateTopic, clear and sweep, localStorage holds one record for each
\* key that has an entry in memory and for no other key.
C29_MirrorHoldsMemoryKeys ==
  /\ {r.key : r \in storage} = MapKeys(cache)
  /\ Cardinality(storage) = Len(cache)

\* a get has deleted an expired entry from a full store, and its record is
\* gone from localStorage as well
C29_Witness ==
  /\ last.op = "get"
  /\ last.hadKey
  /\ last.ret = Null
  /\ last.size0 = MAX_ENTRIES
  /\ Len(cache) = MAX_ENTRIES - 1
  /\ Cardinality(storage) = MAX_ENTRIES - 1
  /\ \A r \in storage : r.key # last.key

---------------------------------------------------------------------------
(* Properties of preloadContent *)

\* the key has an unexpired entry in memory
Live(key) == MapHas(cache, key) /\ ~(now > MapGet(cache, key).expiresAt)

\* C30: preloadContent does not call the loader for a subtopic whose key has
\* an unexpired entry when the preload examines it; a loader that rejects
\* for one subtopic leaves the cache and the other subtopic's promise as
\* they are, the content a loader resolves with is cached whatever happened
\* to the other subtopic, and the preload fulfils.
C30_PreloadSkipsCachedAndSurvivesFailure ==
  [][/\ last'.op = "preload" =>
          \A s \in Slots :
            Live(PreloadKey(topicsToPreload[s])) => reqs'[s].pc = "skipped"
     /\ (last'.op = "loaderSettles" /\ last'.outcome = "reject") =>
          /\ cache' = cache
          /\ \A s \in Slots \ {last'.slot} : reqs'[s] = reqs[s]
     /\ (last'.op = "loaderSettles" /\ last'.outcome = "ok") =>
          /\ MapHas(cache', last'.key)
          /\ MapGet(cache', last'.key).data = reqs'[last'.slot].ret
          /\ \A s \in Slots \ {last'.slot} : reqs'[s] = reqs[s]
     /\ last'.op = "preloaded" => last'.outcome = "resolved"]_vars

\* a preload has fulfilled in which the loader rejected for the first
\* subtopic and the content of the second was loaded and cached after that
C30_Witness ==
  /\ last.op = "preloaded"
  /\ reqs[1].pc = "failed"
  /\ reqs[2].pc = "cached"
  /\ MapHas(cache, PreloadKey(reqs[2]))
  /\ ~MapHas(cache, PreloadKey(reqs[1]))

---------------------------------------------------------------------------
(* Further properties of the cache operations *)

\* C31: clear leaves no entry in memory and no record in localStorage and
\* sets both counters to 0, so that getStats then reports 0 entries, 0 hits,
\* 0 misses and hitRate 0; and as long as no set is made the store stays
\* empty and every get returns null.
C31_ClearEmptiesAndResets ==
  [][/\ last'.op = "clear" =>
          /\ cache' = <<>>
          /\ storage' = {}
          /\ stats' = [hits |-> 0, misses |-> 0]
          /\ getStats(Store)' = NoReport
     /\ (cache = <<>> /\ storage = {} /\ last'.op # "set") =>
          /\ cache' = <<>>
          /\ storage' = {}
          /\ last'.op = "get" => last'.ret = Null]_vars

\* clear has just emptied a store of two entries: nothing is left in memory
\* or in localStorage, and the report is all zeros
C31_Witness ==
  /\ last.op = "clear"
  /\ last.size0 = 2
  /\ cache = <<>>
  /\ storage = {}
  /\ getStats(Store) = NoReport

---------------------------------------------------------------------------
(* Properties of the topics page *)

\* the group key of the topic at the 1-based position i
GroupKey(i) ==
  IF page.displayTopics[i].level = NoLevel THEN i
  ELSE page.displayTopics[i].level

\* the positions of the topics of a group
Members(k) == {i \in 1..Len(page.displayTopics) : GroupKey(i) = k}

PositionOf(topic) ==
  CHOOSE i \in 1..Len(page.displayTopics) : page.displayTopics[i] = topic

\* C32: the topic list is grouped by level, a topic without a level taking
\* its 1-based position as group key; the group keys are listed in ascending
\* order, the topics of a group keep the order of the list, and get started
\* opens the first topic of the group with the smallest key.
C32_GroupedByLevel ==
  LET byLevel == topicsByLevel(page.displayTopics)
      ls == levels(page.displayTopics)
      n == Len(page.displayTopics)
  IN /\ DOMAIN byLevel = {GroupKey(i) : i \in 1..n}
     /\ {ls[j] : j \in 1..Len(ls)} = DOMAIN byLevel
     /\ \A j \in 1..(Len(ls) - 1) : ls[j] < ls[j + 1]
     /\ \A k \in DOMAIN byLevel :
          /\ Len(byLevel[k]) = Cardinality(Members(k))
          /\ {PositionOf(byLevel[k][p]) : p \in 1..Len(byLevel[k])} = Members(k)
          /\ \A p \in 1..(Len(byLevel[k]) - 1) :
               PositionOf(byLevel[k][p]) < PositionOf(byLevel[k][p + 1])
     /\ last.op = "getStarted" =>
          \E i \in 1..n :
            /\ page.route = <<page.displayTopics[i].topic_id>>
            /\ \A j \in 1..n : GroupKey(i) <= GroupKey(j)
            /\ \A j \in 1..n : GroupKey(j) = GroupKey(i) => i <= j

\* get started has opened the third topic of a list whose first topic is at
\* level 2, whose second topic has no level and so joins the group of key 2,
\* and whose third topic is at level 1
C32_Witness ==
  /\ last.op = "getStarted"
  /\ Len(page.displayTopics) = 3
  /\ page.displayTopics[1].level = 2
  /\ page.displayTopics[2].level = NoLevel
  /\ page.displayTopics[3].level = 1
  /\ Len(topicsByLevel(page.displayTopics)[2]) = 2
  /\ levels(page.displayTopics) = <<1, 2>>
  /\ page.route = <<"t3">>

\* C33: a set on a key that already has an entry, made while the store holds
\* exactly MAX_ENTRIES entries, removes no entry of another key and leaves
\* the number of entries as it was.
C33_OverwriteAtCapacityEvictsNothing ==
  [][(last'.op = "set" /\ Len(cache) = MAX_ENTRIES /\ MapHas(cache, last'.key))
       => /\ Len(cache') = Len(cache)
          /\ \A k \in MapKeys(cache) : MapHas(cache', k)]_vars

\* C34: after invalidateTopic(topicId) has returned, a get for a key of that
\* topic returns absent as long as no set has been made, also when the entry
\* was held only in localStorage when the topic was invalidated (stated for
\* the get that directly follows the invalidation).
C34_InvalidatedTopicAbsent ==
  [][(/\ last.op = "invalidateTopic"
      /\ last.sub = <<>>
      /\ last'.op = "get"
      /\ KeyTopic(last'.key) = last.key)
       => last'.ret = Null]_vars

---------------------------------------------------------------------------
(* Invalidation against requests in flight *)

\* C35: after invalidateTopic or clear has returned, no cache hit returns a
\* bundle whose generation had started before the invalidation, also when
\* the generation was still in flight at the invalidation and wrote its
\* result afterwards.
C35_NoHitFromOvertakenGeneration ==
  [][(last.stale /\ last'.op = "call") => last'.tier # "cache"]_vars

---------------------------------------------------------------------------
(* Navigation during a load *)

\* C36: when the learner has navigated from subtopic A to subtopic B while
\* the load of A was in flight, then whenever a load has finished and the
\* page no longer shows the loader, the content and the two quizzes held are
\* those requested for B, and the lesson is in intro at card 0 with no
\* answers and no results.
C36_PageHoldsLatestRequest ==
  (/\ reqs[2].pc # "idle"
   /\ last.op = "loaded"
   /\ ~page.isLoading)
    => /\ [content |-> page.content, mainQuiz |-> page.mainQuiz,
           examQuiz |-> page.examQuiz] \in BundlesOf(SubtopicB)
       /\ page.contentState = "intro"
       /\ page.currentCardIndex = 0
       /\ page.quizAnswers = NoEntries
       /\ page.quizResults = NoEntries

---------------------------------------------------------------------------
(* Progress of the lesson *)

\* C37: once loading has finished, in every state other than completion a
\* card with the next control is shown, so that the learner can advance
\* (and repeated advances reach completion), also when the content or a
\* quiz is empty.
C37_AdvanceEnabled ==
  (~page.isLoading /\ page.contentState # "completion")
    => /\ canAdvance(page)
       /\ ENABLED Advance

---------------------------------------------------------------------------
(* Cache keys of the requests *)

\* C39: requests that differ in kind, subject, grade, topic, subtopic, quiz
\* variant or count have different cache keys, so that a request answered
\* from the cache receives a payload of its own kind: a content request a
\* list of cards, a topic-list request a list of topic descriptions.
C39_HitOfOwnKind ==
  (last.op = "call" /\ last.tier = "cache")
    => LET q == reqs[last.slot]
       IN /\ q.kind = "content" =>
               \A i \in 1..Len(q.ret.v) : "title" \in DOMAIN q.ret.v[i]
          /\ q.kind = "topics" =>
               \A i \in 1..Len(q.ret.v) : "topic_id" \in DOMAIN q.ret.v[i]

=============================================================================
